---- MODULE Spec2Model ----
(***************************************************************************)
(* Verification model of the aircraft search calculator                    *)
(* (src/static/js): the search-area estimator, the probability-field       *)
(* sampler, its von Mises generator and the exporter of                    *)
(* search-algorithms.js, applied to inputs drawn from bounded sets.        *)
(*                                                                         *)
(* Numbers.  A JavaScript number is carried as an exact fraction <<n, d>>  *)
(* in lowest terms with d > 0; d = 0 marks the IEEE special values:        *)
(* <<0,0>> is NaN, <<1,0>> is +Infinity and <<-1,0>> is -Infinity.  The    *)
(* arithmetic operators below follow the IEEE rules for these values       *)
(* (x/0, 0/0, Infinity*0, comparisons with NaN, Math.max/Math.min with     *)
(* NaN).  Rounding of finite results is not modelled.                      *)
(*                                                                         *)
(* Angles in radians are carried as multiples of Math.PI.                  *)
(***************************************************************************)
EXTENDS Integers, Sequences, FiniteSets, TLC

(***************************************************************************)
(* JavaScript number arithmetic                                            *)
(***************************************************************************)
NaN == <<0, 0>>
PosInf == <<1, 0>>
NegInf == <<-1, 0>>

\* JavaScript evaluates the operands of an operation once, before the
\* operation.  An operation Op is defined as OpV on the values v of its
\* operands: Op(a) == CHOOSE w \in {OpV(v) : v \in {a}} : TRUE.

AbsInt(n) == IF n < 0 THEN -n ELSE n

RECURSIVE GCD(_, _)
GCD(a, b) == IF b = 0 THEN a ELSE GCD(b, a % b)

\* the fraction n/d (d # 0) in lowest terms with a positive denominator
Frac(n, d) ==
    LET s == IF d < 0 THEN -1 ELSE 1
        g == GCD(AbsInt(n), AbsInt(d))
    IN  <<(s * n) \div g, (s * d) \div g>>

Num(n) == <<n, 1>>

IsNaN(a) == a = NaN
IsFinite(a) == a[2] # 0

Sign(a) == IF a[1] > 0 THEN 1 ELSE IF a[1] < 0 THEN -1 ELSE 0

Neg(a) == <<-a[1], a[2]>>

AddV(a, b) ==
    IF IsNaN(a) \/ IsNaN(b) THEN NaN
    ELSE IF ~IsFinite(a) /\ ~IsFinite(b) THEN (IF a = b THEN a ELSE NaN)
    ELSE IF ~IsFinite(a) THEN a
    ELSE IF ~IsFinite(b) THEN b
    ELSE LET g == GCD(a[2], b[2])
         IN  Frac(a[1] * (b[2] \div g) + b[1] * (a[2] \div g), (a[2] \div g) * b[2])
Add(a, b) == CHOOSE w \in {AddV(v[1], v[2]) : v \in {<<a, b>>}} : TRUE

Sub(a, b) == Add(a, Neg(b))

MulV(a, b) ==
    IF IsNaN(a) \/ IsNaN(b) THEN NaN
    ELSE IF ~IsFinite(a) \/ ~IsFinite(b)
         THEN (IF Sign(a) * Sign(b) = 0 THEN NaN ELSE <<Sign(a) * Sign(b), 0>>)
    ELSE LET g1 == GCD(AbsInt(a[1]), b[2])
             g2 == GCD(AbsInt(b[1]), a[2])
         IN  <<(a[1] \div g1) * (b[1] \div g2), (a[2] \div g2) * (b[2] \div g1)>>
Mul(a, b) == CHOOSE w \in {MulV(v[1], v[2]) : v \in {<<a, b>>}} : TRUE

\* 1/a; 1/0 is +Infinity (the sign of zero is not modelled)
RecipV(a) ==
    IF IsNaN(a) THEN NaN
    ELSE IF ~IsFinite(a) THEN Num(0)
    ELSE IF a[1] = 0 THEN PosInf
    ELSE Frac(a[2], a[1])
Recip(a) == CHOOSE w \in {RecipV(v) : v \in {a}} : TRUE

Div(a, b) == Mul(a, Recip(b))

\* a < b, a <= b, a > b as JavaScript evaluates them (false when either is NaN)
Lt(a, b) == ~IsNaN(a) /\ ~IsNaN(b) /\ a # b /\ Sign(Sub(b, a)) > 0
LeV(a, b) == ~IsNaN(a) /\ ~IsNaN(b) /\ (a = b \/ Lt(a, b))
Le(a, b) == CHOOSE w \in {LeV(v[1], v[2]) : v \in {<<a, b>>}} : TRUE
Gt(a, b) == Lt(b, a)

MathMax(a, b) == IF IsNaN(a) \/ IsNaN(b) THEN NaN ELSE IF Lt(a, b) THEN b ELSE a
MathMin(a, b) == IF IsNaN(a) \/ IsNaN(b) THEN NaN ELSE IF Lt(b, a) THEN b ELSE a
MathAbs(a) == IF Sign(a) < 0 THEN Neg(a) ELSE a

(***************************************************************************)
(* search-algorithms.js: utilities                                         *)
(***************************************************************************)
\* degrees * Math.PI / 180, in multiples of Math.PI
toRadians(degrees) == Div(degrees, Num(180))

\* radians * 180 / Math.PI, for radians in multiples of Math.PI
toDegrees(radians) == Mul(radians, Num(180))

(***************************************************************************)
(* A position is <<lat, lon, legs>>: the point reached from (lat, lon) by  *)
(* following the great-circle legs <<bearing, distance>> of legs in order  *)
(* with the spherical direct formula.  The trigonometry of a leg is kept   *)
(* as the leg itself; a leg of distance 0 leaves the point where it is     *)
(* (sin 0 = 0, cos 0 = 1 in the formula).  A NaN or infinite latitude,      *)
(* bearing or distance gives NaN coordinates; the longitude only enters    *)
(* lon2 = lon1 + atan2(...), so a NaN or infinite longitude stays what it  *)
(* is and leaves the latitude as the formula gives it.                     *)
(***************************************************************************)
Position(lat, lon) == <<lat, lon, <<>>>>
NaNPosition == <<NaN, NaN, <<>>>>

getDestinationPoint(p, bearing, distance) ==
    IF ~IsFinite(p[1]) \/ ~IsFinite(bearing) \/ ~IsFinite(distance)
    THEN NaNPosition
    ELSE IF distance = Num(0) THEN p
    ELSE <<p[1], p[2], Append(p[3], <<bearing, distance>>)>>

(***************************************************************************)
(* aircraft-data.js: the aircraft specifications                           *)
(***************************************************************************)
aircraftTypes ==
    [cessna172 |-> [glide_ratio |-> Num(9), emergency_descent_rate |-> Num(1500)],
     baron |-> [glide_ratio |-> Num(10), emergency_descent_rate |-> Num(1800)],
     citation |-> [glide_ratio |-> Num(15), emergency_descent_rate |-> Num(3000)],
     gulfstream |-> [glide_ratio |-> Num(17), emergency_descent_rate |-> Num(3500)],
     embraer |-> [glide_ratio |-> Num(18), emergency_descent_rate |-> Num(3500)],
     boeing737 |-> [glide_ratio |-> Num(17), emergency_descent_rate |-> Num(4000)],
     boeing777 |-> [glide_ratio |-> Num(19), emergency_descent_rate |-> Num(4500)],
     helicopter |-> [glide_ratio |-> Num(4), emergency_descent_rate |-> Num(1500)]]

(***************************************************************************)
(* search-algorithms.js: calculateSearchArea (the estimator)               *)
(***************************************************************************)
FeetPerNm == 6076

GlideDistance_AtLeastOneMile(altitude, aircraftSpecs) ==
    Mul(MathMax(Div(altitude, Num(FeetPerNm)), Num(1)), aircraftSpecs.glide_ratio)

GlideDistance(altitude, aircraftSpecs) ==
    Mul(Div(altitude, Num(FeetPerNm)), aircraftSpecs.glide_ratio)

TimeToImpactMinutes_LevelAsDescent(altitude, verticalSpeed, aircraftSpecs) ==
    IF Le(verticalSpeed, Num(0))
    THEN Div(altitude, MathAbs(verticalSpeed))
    ELSE Div(altitude, aircraftSpecs.emergency_descent_rate)

TimeToImpactMinutes(altitude, verticalSpeed, aircraftSpecs) ==
    IF Le(verticalSpeed, Num(0))
    THEN (IF Lt(verticalSpeed, Num(0))
          THEN Div(altitude, MathAbs(verticalSpeed))
          ELSE Div(altitude, aircraftSpecs.emergency_descent_rate))
    ELSE Div(altitude, aircraftSpecs.emergency_descent_rate)

SearchRadius_MarginOnBaseOnly(baseRadius, windUncertainty, searchRadiusMultiplier) ==
    Add(Mul(baseRadius, searchRadiusMultiplier), windUncertainty)

SearchRadius(baseRadius, windUncertainty, searchRadiusMultiplier) ==
    Mul(Add(baseRadius, windUncertainty), searchRadiusMultiplier)

BaseRadius_Min(glideDistance, horizontalDistance) ==
    MathMin(glideDistance, horizontalDistance)

BaseRadius(glideDistance, horizontalDistance) ==
    MathMax(glideDistance, horizontalDistance)

\* the estimator; the record holds its return value (searchCenter,
\* searchRadius, glideDistance) together with its local constants
calculateSearchArea(latitude, longitude, altitude, groundSpeed, heading, verticalSpeed, windSpeed, windDirection, aircraftSpecs, searchRadiusMultiplier) ==
    LET glideDistance == GlideDistance(altitude, aircraftSpecs)
        timeToImpactMinutes == TimeToImpactMinutes(altitude, verticalSpeed, aircraftSpecs)
        timeToImpactHours == Div(timeToImpactMinutes, Num(60))
        horizontalDistance == Mul(groundSpeed, timeToImpactHours)
        initialCenter == getDestinationPoint(Position(latitude, longitude),
                                             heading, horizontalDistance)
        windDistance == Mul(windSpeed, timeToImpactHours)
        finalCenter == getDestinationPoint(initialCenter, windDirection, windDistance)
        baseRadius == BaseRadius(glideDistance, horizontalDistance)
        windUncertainty == Mul(windDistance, Frac(2, 10))
        searchRadius == SearchRadius(baseRadius, windUncertainty, searchRadiusMultiplier)
    IN  [searchCenter |-> finalCenter,
         searchRadius |-> searchRadius,
         glideDistance |-> glideDistance,
         timeToImpactMinutes |-> timeToImpactMinutes,
         timeToImpactHours |-> timeToImpactHours,
         horizontalDistance |-> horizontalDistance,
         windDistance |-> windDistance,
         baseRadius |-> baseRadius,
         windUncertainty |-> windUncertainty]

(***************************************************************************)
(* Math.* at the arguments the model feeds it.  Trigonometric arguments    *)
(* are multiples of Math.PI; values that are not exact are rational        *)
(* approximations of the function value (given to three figures in the     *)
(* comments).                                                              *)
(***************************************************************************)
MathCosV(t) ==
    CASE t = Num(0) -> Num(1)
      [] t = Frac(-1, 2) -> Num(0)
      [] t = Frac(1, 4) -> Frac(7, 10)          \* cos(0.25 pi) = 0.707
      [] t = Frac(1, 2) -> Num(0)
      [] t = Frac(4, 5) -> Frac(-4, 5)          \* cos(0.80 pi) = -0.809
      [] t = Frac(99, 100) -> Num(-1)           \* cos(0.99 pi) = -0.9995
      [] t = Num(1) -> Num(-1)
      [] t = Frac(3, 2) -> Num(0)
MathCos(t) == CHOOSE w \in {MathCosV(v) : v \in {t}} : TRUE

MathSin(t) ==
    CASE t = Num(0) -> Num(0)
      [] t = Frac(-1, 2) -> Num(-1)
      [] t = Frac(1, 4) -> Frac(7, 10)          \* sin(0.25 pi) = 0.707
      [] t = Frac(1, 2) -> Num(1)
      [] t = Num(1) -> Num(0)
      [] t = Frac(3, 2) -> Num(-1)

\* Math.asin(x) in multiples of Math.PI
MathAsin(x) ==
    CASE x = Num(0) -> Num(0)
      [] x = Frac(7, 10) -> Frac(1, 4)          \* asin(0.707) = 0.25 pi
      [] x = Num(1) -> Frac(1, 2)
      [] x = Num(-1) -> Frac(-1, 2)

\* Math.atan2(y, x) for a vector on a coordinate axis or on a diagonal of the
\* right half plane, in multiples of Math.PI
MathAtan2(y, x) ==
    CASE Sign(x) > 0 /\ y = x -> Frac(1, 4)
      [] Sign(x) > 0 /\ Sign(y) < 0 /\ y = Neg(x) -> Frac(-1, 4)
      [] Sign(x) = 0 /\ Sign(y) > 0 -> Frac(1, 2)
      [] Sign(x) = 0 /\ Sign(y) < 0 -> Frac(-1, 2)
      [] Sign(y) = 0 /\ Sign(x) < 0 -> Num(1)
      [] Sign(y) = 0 /\ Sign(x) >= 0 -> Num(0)

MathSqrtV(x) ==
    CASE x = Num(17) -> Frac(21, 5)             \* sqrt(17)   = 4.12
      [] x = Frac(52, 5) -> Frac(16, 5)         \* sqrt(10.4) = 3.22
      [] x = PosInf -> PosInf
      [] IsNaN(x) -> NaN
MathSqrt(x) == CHOOSE w \in {MathSqrtV(v) : v \in {x}} : TRUE

\* Math.sqrt(-2 * Math.log(u)) for a uniform draw u
SqrtMinus2Log(u) ==
    CASE u = Num(0) -> PosInf                   \* log(0) = -Infinity
      [] u = Frac(4, 5) -> Frac(2, 3)           \* 0.668
      [] u = Frac(99, 100) -> Frac(1, 7)        \* 0.142

MathExpV(x) ==
    CASE IsNaN(x) -> NaN
      [] x = PosInf -> PosInf
      [] x = NegInf -> Num(0)
      [] x = Num(0) -> Num(1)
      [] x = Frac(-3, 2) -> Frac(2, 9)          \* exp(-1.5)   = 0.223
      [] x = Num(-1) -> Frac(3, 8)              \* exp(-1)     = 0.368
      [] x = Frac(-3, 14) -> Frac(4, 5)         \* exp(-0.214) = 0.807
      [] x = Frac(3, 2) -> Frac(9, 2)           \* exp(1.5)    = 4.48
      [] x = Frac(1, 2) -> Frac(33, 20)         \* exp(0.5)    = 1.649
      [] x = Frac(-7, 2) -> Frac(3, 100)        \* exp(-3.5)   = 0.0302
MathExp(x) == CHOOSE w \in {MathExpV(v) : v \in {x}} : TRUE

(***************************************************************************)
(* Math.random(): the values the implicit global source returns in the     *)
(* model, all in [0, 1), by the place that draws them                      *)
(***************************************************************************)
RadialDraws == {Num(0), Frac(99, 100)}     \* rand of the for loop (line 197)
U1Draws == {Num(0), Frac(4, 5)}            \* u1 of vonMises (line 152)
U2Draws == {Num(0), Frac(99, 100)}         \* u2 of vonMises (line 157)
U3Draws == {Num(0), Frac(99, 100)}         \* u3 of vonMises (line 159)

(***************************************************************************)
(* search-algorithms.js: vonMises                                          *)
(***************************************************************************)
\* the constants of the rejection loop (lines 145-147)
VonMisesA(kappa) == Add(Num(1), MathSqrt(Add(Num(1), Mul(Num(4), Mul(kappa, kappa)))))
VonMisesB(kappa, a) == Div(Sub(a, MathSqrt(Mul(Num(2), a))), Mul(Num(2), kappa))
VonMisesR(b) == Div(Add(Num(1), Mul(b, b)), Mul(Num(2), b))

\* z, f and c of one attempt (lines 153-155), z in terms of the draw u1
VonMisesZ(u1) == MathCos(u1)
VonMisesF(r, z) == Div(Add(Num(1), Mul(r, z)), Add(r, z))
VonMisesC(kappa, r, f) == Mul(kappa, Sub(r, f))

\* the acceptance test of one attempt (line 158)
VonMisesTest(c, u2) ==
    \/ Le(u2, Mul(c, Sub(Num(2), c)))
    \/ Le(u2, Mul(c, MathExp(Sub(Num(1), c))))

\* the value returned on acceptance (line 160): the angle
\* mu + sign * acos(f), kept as <<mu, sign, f>>; acos(1) = 0, so the sign is
\* immaterial when f = 1
VonMisesValue(mu, f, u3) ==
    IF f = Num(1)
    THEN <<mu, 0, f>>
    ELSE <<mu, IF Gt(u3, Frac(1, 2)) THEN 1 ELSE -1, f>>

\* r for a call with concentration kappa
VonMisesRadius(kappa) == VonMisesR(VonMisesB(kappa, VonMisesA(kappa)))

\* whether the attempt with the draws u1 and u2 is accepted
VonMisesAccepts(kappa, r, u1, u2) ==
    VonMisesTest(VonMisesC(kappa, r, VonMisesF(r, VonMisesZ(u1))), u2)

Kappa == 2

(***************************************************************************)
(* search-algorithms.js: calculateProbabilityDistribution (the sampler)    *)
(*                                                                         *)
(* draws[i] = [rand, u1, u2, u3] are the values Math.random() returns for  *)
(* point i: the radial draw and the draws of the accepted attempt of       *)
(* vonMises (rejected attempts before it change no result).                *)
(***************************************************************************)
\* The weights are the one place where the rounding of a double decides a
\* comparison.  The double nearest 0.2 is 1/5 + u and the double nearest 0.8
\* is 4/5 + 4u, for u = 2^-54 / 5, and 1 - 0.8 is computed without rounding:
\* 1/5 - 4u, printed 0.19999999999999996.  32-bit integers do not hold u; it
\* is carried as 1 / (5 * 2^25), so that the order of these values and their
\* sums and differences are those of the doubles.
RoundingUnit == Frac(1, 5 * 2^25)

\* the double nearest x, for the two fractions above; every other value is
\* carried as the fraction itself
Double(x) ==
    IF x = Frac(1, 5) THEN Add(x, RoundingUnit)
    ELSE IF x = Frac(4, 5) THEN Add(x, Mul(Num(4), RoundingUnit))
    ELSE x

WindWeight_Uncapped(windSpeed) == Double(Div(windSpeed, Num(50)))

WindWeight(windSpeed) == MathMin(Double(Div(windSpeed, Num(50))), Double(Frac(8, 10)))

HighProbDirection(heading, windDirection, windSpeed) ==
    LET Direction(headingRad, windDirectionRad, windWeight, headingWeight) ==
            MathAtan2(Add(Mul(headingWeight, MathSin(headingRad)),
                          Mul(windWeight, MathSin(windDirectionRad))),
                      Add(Mul(headingWeight, MathCos(headingRad)),
                          Mul(windWeight, MathCos(windDirectionRad))))
    IN  Direction(toRadians(heading), toRadians(windDirection),
                  WindWeight(windSpeed), Sub(Num(1), WindWeight(windSpeed)))

SampleDistance(searchRadius, rand) ==
    MathMin(Mul(searchRadius, SqrtMinus2Log(rand)), searchRadius)

\* the unnormalised probability of a sample at signed distance `distance`
\* and angle highProbDirection +/- acos(f).  distanceFromCenter =
\* sqrt(x^2 + y^2) = |distance|.  For a finite distance # 0 the angle of
\* (x, y) differs from highProbDirection by acos(f) (or its supplement when
\* distance < 0), so angleFactor = cos(angleDiff)^2 = f^2; for every other
\* distance distanceFactor is NaN or Infinity and so is the product
\* whatever angleFactor is.
SampleProbability(searchRadius, distance, f) ==
    LET maxDistance == searchRadius
        distanceFromCenter == MathAbs(distance)
        distanceFactor == MathExp(Mul(Frac(-3, 2), Div(distanceFromCenter, maxDistance)))
        angleFactor == Mul(f, f)
    IN  Mul(distanceFactor, Add(Frac(7, 10), Mul(Frac(3, 10), angleFactor)))

\* one pass of the for loop: the point [latPoint, lonPoint, probability].
\* latPoint and lonPoint are the center displaced by the planar offset
\* (distance, angle); they are kept as <<center, distance, angle>>.
SamplePoint(searchCenter, searchRadius, highProbDirection, d) ==
    LET Point(distance, angle) ==
            <<<<searchCenter, distance, angle>>,
              SampleProbability(searchRadius, distance, angle[3])>>
    IN  Point(SampleDistance(searchRadius, d.rand),
              VonMisesValue(highProbDirection,
                            VonMisesF(VonMisesRadius(Num(Kappa)), VonMisesZ(d.u1)),
                            d.u3))

RECURSIVE MaxProb(_, _)
MaxProb(results, i) ==
    IF i = 0 THEN Num(0) ELSE MathMax(MaxProb(results, i - 1), results[i][2])

\* the field as sampled, no probability divided
Normalize_Unscaled(results) == [i \in 1..Len(results) |-> <<results[i][1], results[i][2]>>]

Normalize(results) ==
    LET maxProb == MaxProb(results, Len(results))
    IN  [i \in 1..Len(results) |-> <<results[i][1], Div(results[i][2], maxProb)>>]

calculateProbabilityDistribution(searchCenter, searchRadius, numPoints, heading, windDirection, windSpeed, glideDistance, draws) ==
    LET Results(highProbDirection) ==
            [i \in 1..numPoints |->
               SamplePoint(searchCenter, searchRadius, highProbDirection, draws[i])]
    IN  Normalize(Results(HighProbDirection(heading, windDirection, windSpeed)))

\* the draws of one attempt of the rejection loop
Attempt == [u1 : U1Draws, u2 : U2Draws]

\* the attempts the rejection loop accepts
Accepted ==
    UNION {IF VonMisesAccepts(Num(Kappa), VonMisesRadius(Num(Kappa)), a.u1, a.u2)
           THEN {a} ELSE {} : a \in Attempt}

\* the draws of one pass of the for loop whose vonMises call returns
Draws(accepted) == {[rand |-> rand, u1 |-> a.u1, u2 |-> a.u2, u3 |-> u3] :
                       rand \in RadialDraws, a \in accepted, u3 \in U3Draws}

(***************************************************************************)
(* search-algorithms.js: exportSearchCoordinates                           *)
(*                                                                         *)
(* The CSV text is carried as its header line and the sequence of its data *)
(* rows, the GeoJSON text as the sequence of its features.                *)
(***************************************************************************)
NumBoundaryPoints == 36

CsvThreshold_Half == Frac(5, 10)

CsvThreshold == Frac(2, 10)

GeoJsonThreshold_AsCsv == Frac(2, 10)

GeoJsonThreshold == Frac(5, 10)

\* probabilityPoints.filter(p => p[2] > threshold), order kept
Significant(probabilityPoints, threshold) ==
    SelectSeq(probabilityPoints, LAMBDA p : Gt(p[2], threshold))

BoundaryPoint(searchCenter, searchRadius, i) ==
    LET angle == toRadians(Num(i * 10))
    IN  getDestinationPoint(searchCenter, toDegrees(angle), searchRadius)

ExportCsv(searchCenter, searchRadius, probabilityPoints) ==
    LET centerRow == <<[pos |-> searchCenter, probability |-> Num(1), type |-> "center"]>>
        boundaryRows == [k \in 1..NumBoundaryPoints |->
                           [pos |-> BoundaryPoint(searchCenter, searchRadius, k - 1),
                            probability |-> Num(0), type |-> "boundary"]]
        significantPoints == Significant(probabilityPoints, CsvThreshold)
        pointRows == [k \in 1..Len(significantPoints) |->
                        [pos |-> significantPoints[k][1],
                         probability |-> significantPoints[k][2],
                         type |-> "probability"]]
    IN  [format |-> "csv",
         header |-> "Latitude,Longitude,Probability,Type",
         rows |-> centerRow \o boundaryRows \o pointRows,
         features |-> <<>>]

\* the two numbers of a position, each kept as the position it is read from
LatOf(p) == <<"lat", p>>
LonOf(p) == <<"lon", p>>

\* a GeoJSON coordinate pair of a position [lat, lon]: [lon, lat]
LonLat(p) == <<LonOf(p), LatOf(p)>>

\* the ring of the boundary polygon: for (let i = 0; i < numBoundaryPoints; i++)
BoundaryRing_Open(searchCenter, searchRadius) ==
    [k \in 1..NumBoundaryPoints |->
       LonLat(BoundaryPoint(searchCenter, searchRadius, (k - 1) % 36))]

\* the ring of the boundary polygon: for (let i = 0; i <= numBoundaryPoints; i++),
\* the angle of pass i being i % 36 * 10 degrees
BoundaryRing(searchCenter, searchRadius) ==
    [k \in 1..(NumBoundaryPoints + 1) |->
       LonLat(BoundaryPoint(searchCenter, searchRadius, (k - 1) % 36))]

ExportGeoJson(searchCenter, searchRadius, probabilityPoints) ==
    LET centerFeature == <<[geometry |-> "Point", coordinates |-> <<LonLat(searchCenter)>>,
                            type |-> "center", probability |-> Num(1)]>>
        boundaryFeature == <<[geometry |-> "Polygon",
                              coordinates |-> BoundaryRing(searchCenter, searchRadius),
                              type |-> "boundary", probability |-> NaN]>>
        highProbPoints == Significant(probabilityPoints, GeoJsonThreshold)
        pointFeatures == [k \in 1..Len(highProbPoints) |->
                            [geometry |-> "Point",
                             coordinates |-> <<LonLat(highProbPoints[k][1])>>,
                             type |-> "probability", probability |-> highProbPoints[k][2]]]
    IN  [format |-> "geojson",
         header |-> "",
         rows |-> <<>>,
         features |-> centerFeature \o boundaryFeature \o pointFeatures]

exportSearchCoordinates(searchCenter, searchRadius, probabilityPoints, exportFormat) ==
    IF exportFormat = "csv"
    THEN ExportCsv(searchCenter, searchRadius, probabilityPoints)
    ELSE ExportGeoJson(searchCenter, searchRadius, probabilityPoints)

(***************************************************************************)
(* State: one set of inputs and what the functions return for it           *)
(*                                                                         *)
(* null is the empty sequence and a value v is <<v>>.                      *)
(***************************************************************************)
VARIABLES
    form,        \* the inputs: flight state, wind, aircraft type, settings
    calc,        \* what calculateSearchArea returned for the inputs
    sampled,     \* what the last calculateProbabilityDistribution call returned
    exportOut,   \* what the last exportSearchCoordinates call returned
    hung,        \* a call is in a loop that does not end
    vm,          \* one call of vonMises: its position and its locals
    page,        \* the page of app.js: its globals, its pending timers, its widgets
    tracker      \* the page of the aircraft tracker

vars == <<form, calc, sampled, exportOut, hung, vm, page, tracker>>

Null == <<>>
Some(v) == <<v>>

\* !v of JavaScript for a value that is null, a number or an array
Falsy(v) == v = Null \/ v[1] = Num(0) \/ IsNaN(v[1])

\* the values the inputs take
Latitudes == {Frac(377749, 10000)}
Longitudes == {Frac(-1224194, 10000)}
Altitudes == {Num(-6076), Num(0), Num(6076)}
GroundSpeeds == {Num(0), Num(450)}
Headings == {Num(90)}
VerticalSpeeds == {Num(-1000), Num(0), Num(500)}
WindSpeeds == {Num(0), Num(15)}
WindDirections == {Num(270)}
RadiusMultipliers == {Num(1), Num(2)}
AircraftTypeKeys == {"cessna172", "boeing737"}
NumPointsValues == {1, 2}

\* the inputs on which the estimator is exercised
EstimatorForms ==
    [latitude : Latitudes, longitude : Longitudes, altitude : Altitudes,
     groundSpeed : GroundSpeeds, heading : Headings, verticalSpeed : VerticalSpeeds,
     windSpeed : WindSpeeds, windDirection : WindDirections,
     searchRadiusMultiplier : RadiusMultipliers, numPoints : {1},
     aircraftType : AircraftTypeKeys]

\* the inputs on which the sampler and the exporter are exercised
SamplerForms ==
    [latitude : Latitudes, longitude : Longitudes, altitude : Altitudes,
     groundSpeed : {Num(450)}, heading : Headings, verticalSpeed : {Num(0)},
     windSpeed : {Num(15)}, windDirection : WindDirections,
     searchRadiusMultiplier : {Num(2)}, numPoints : NumPointsValues,
     aircraftType : {"boeing737"}]

\* the estimator applied to the inputs q
Estimate(q) ==
    calculateSearchArea(q.latitude, q.longitude, q.altitude, q.groundSpeed, q.heading,
                        q.verticalSpeed, q.windSpeed, q.windDirection,
                        aircraftTypes[q.aircraftType], q.searchRadiusMultiplier)

\* the sampler applied to the estimator's result for the inputs q
Sample(q, results, draws) ==
    calculateProbabilityDistribution(results.searchCenter, results.searchRadius,
                                     q.numPoints, q.heading, q.windDirection,
                                     q.windSpeed, results.glideDistance, draws)

VmIdle == [pc |-> "idle", mu |-> NaN, kappa |-> NaN, a |-> NaN, b |-> NaN, r |-> NaN,
           u1 |-> NaN, z |-> NaN, f |-> NaN, c |-> NaN, u2 |-> NaN, u3 |-> NaN,
           value |-> Null]

(***************************************************************************)
(* aircraft-tracker: js/map-controls.js and js/app.js                      *)
(*                                                                         *)
(* The tracker page is a record t: the globals of the two scripts, the     *)
(* timers and the fetches that are pending, and the widgets the handlers   *)
(* write.  An aircraft object is carried with its address, its position    *)
(* and its two altitudes, a marker with its position on the map, the data  *)
(* stored beside it and the aircraft object its click handler closes over. *)
(* The loading indicator, the icons and tooltips and the posts to the      *)
(* database of saveAircraftToDatabase are left out.                        *)
(***************************************************************************)
\* the aircraft of fetchSampleData
SampleAircraft ==
    <<[icao24 |-> "a808c5", latitude |-> Frac(407128, 10000), longitude |-> Frac(-74006, 1000),
       baro_altitude |-> Some(Num(35000)), geo_altitude |-> Some(Num(35100))],
      [icao24 |-> "aa8d67", latitude |-> Frac(408, 10), longitude |-> Frac(-739, 10),
       baro_altitude |-> Some(Num(28000)), geo_altitude |-> Some(Num(28050))],
      [icao24 |-> "4ca748", latitude |-> Frac(4065, 100), longitude |-> Frac(-7378, 100),
       baro_altitude |-> Some(Num(10000)), geo_altitude |-> Some(Num(10100))],
      [icao24 |-> "e76452", latitude |-> Frac(4095, 100), longitude |-> Frac(-742, 10),
       baro_altitude |-> Some(Num(40000)), geo_altitude |-> Some(Num(40100))]>>

SampleIcaos == {SampleAircraft[k].icao24 : k \in 1..Len(SampleAircraft)}

\* the addresses of the aircraft the live feed reports
LiveIcaos == {"3c6444", "400f01"}

Icaos == SampleIcaos \cup LiveIcaos

StatusRed == "bg-red-500"
StatusYellow == "bg-yellow-500"
StatusGreen == "bg-green-500"

SelectAlert == "Please select an aircraft first"

\* the page as index.html and the top of the two scripts declare it, one
\* initApp callback pending for each of the two DOMContentLoaded listeners.
\* intervals holds the interval timers that are active, timerIds counts the
\* interval timers started, fetches the fetches of fetchLiveAircraftData in
\* flight, retryTimers the pending 2-second timers; mapMarkers counts the
\* markers on the map by address; lastEvent names the handler that ran
\* last and lastStates holds the states array processAircraftData handled
\* in it.
TrackerPage ==
    [isLiveTracking |-> FALSE, pollingInterval |-> Null, intervals |-> {}, timerIds |-> 0,
     connectionStatus |-> StatusRed, fetches |-> 0, retryTimers |-> 0,
     aircraftMarkers |-> [i \in Icaos |-> Null], mapMarkers |-> [i \in Icaos |-> 0],
     selectedAircraft |-> Null, glidePathLayer |-> Null, landingZoneLayer |-> Null,
     panelOpen |-> FALSE, flightPosition |-> Null, flightAltitude |-> Null,
     predictionHidden |-> TRUE, alert |-> "", initApps |-> 2,
     lastEvent |-> "", lastStates |-> Null]

\* a handler starts: what the previous one left for the record is dropped
Event(t, name) == [t EXCEPT !.lastEvent = name, !.alert = "", !.lastStates = Null]

\* Math.round
MathRound(a) == Num((2 * a[1] + a[2]) \div (2 * a[2]))

\* aircraft-data.js formatAltitude: the text, as the number and the unit
formatAltitude(altitude) ==
    IF Falsy(Some(altitude)) THEN <<"Unknown">> ELSE <<MathRound(altitude), "ft">>

\* glide-prediction.js formatCoordinates, for coordinates of at most six
\* decimals (toFixed(6) leaves them as they are)
formatCoordinates(coords) ==
    <<MathAbs(coords[1]), IF Le(Num(0), coords[1]) THEN "N" ELSE "S",
      MathAbs(coords[2]), IF Le(Num(0), coords[2]) THEN "E" ELSE "W">>

\* aircraft.geo_altitude || aircraft.baro_altitude || 0
AircraftAltitude(aircraft) ==
    IF ~Falsy(aircraft.geo_altitude) THEN aircraft.geo_altitude[1]
    ELSE IF ~Falsy(aircraft.baro_altitude) THEN aircraft.baro_altitude[1]
    ELSE Num(0)

AircraftPosition(aircraft) == <<aircraft.latitude, aircraft.longitude>>

updateFlightInfoPanel(t, aircraft) ==
    [t EXCEPT !.flightAltitude = Some(formatAltitude(AircraftAltitude(aircraft))),
              !.flightPosition = Some(formatCoordinates(AircraftPosition(aircraft))),
              !.predictionHidden = TRUE]

\* the guard of addAircraftMarker and updateAircraftMarker
NoMarkerFor(aircraft) ==
    Falsy(Some(aircraft.latitude)) \/ Falsy(Some(aircraft.longitude))

addAircraftMarker(t, aircraft) ==
    IF NoMarkerFor(aircraft) THEN t
    ELSE [t EXCEPT !.aircraftMarkers[aircraft.icao24] =
                       Some([latlng |-> AircraftPosition(aircraft),
                             data |-> aircraft, click |-> aircraft]),
                   !.mapMarkers[aircraft.icao24] = @ + 1]

\* the marker moved and its stored data replaced
MarkerUpdated(t, aircraft) ==
    [t EXCEPT !.aircraftMarkers[aircraft.icao24] =
                  Some([@[1] EXCEPT !.latlng = AircraftPosition(aircraft),
                                    !.data = aircraft])]

updateAircraftMarker(t, aircraft) ==
    IF NoMarkerFor(aircraft) THEN t
    ELSE IF t.aircraftMarkers[aircraft.icao24] = Null THEN addAircraftMarker(t, aircraft)
    ELSE IF t.selectedAircraft # Null /\ t.selectedAircraft[1].icao24 = aircraft.icao24
    THEN updateFlightInfoPanel(MarkerUpdated(t, aircraft), aircraft)
    ELSE MarkerUpdated(t, aircraft)

removeAircraftMarker(t, icao24) ==
    IF t.aircraftMarkers[icao24] = Null THEN t
    ELSE [t EXCEPT !.aircraftMarkers[icao24] = Null, !.mapMarkers[icao24] = @ - 1]

selectAircraft(t, aircraft) ==
    [updateFlightInfoPanel([t EXCEPT !.selectedAircraft = Some(aircraft)], aircraft)
        EXCEPT !.panelOpen = TRUE]

clearGlidePrediction(t) ==
    [t EXCEPT !.glidePathLayer = Null, !.landingZoneLayer = Null, !.predictionHidden = TRUE]

closeFlightInfoPanel(t) ==
    [clearGlidePrediction([t EXCEPT !.panelOpen = FALSE]) EXCEPT !.selectedAircraft = Null]

\* what predictLandingZone reads of the aircraft: the landing position, the
\* glide distance and the uncertainty radius are computed from these two
\* and from the inputs of the form
predictLandingZone(aircraft) ==
    [aircraftPosition |-> AircraftPosition(aircraft), altitude |-> AircraftAltitude(aircraft)]

displayGlidePath(t, prediction) ==
    [t EXCEPT !.glidePathLayer = Some(prediction), !.landingZoneLayer = Some(prediction)]

calculateGlidePrediction(t) ==
    IF t.selectedAircraft = Null THEN [t EXCEPT !.alert = SelectAlert]
    ELSE [displayGlidePath(t, predictLandingZone(t.selectedAircraft[1]))
             EXCEPT !.predictionHidden = FALSE]

\* the body of the two forEach loops over aircraft objects
AddOrUpdate(t, aircraft) ==
    IF t.aircraftMarkers[aircraft.icao24] # Null
    THEN updateAircraftMarker(t, aircraft)
    ELSE addAircraftMarker(t, aircraft)

RECURSIVE AddOrUpdateAll(_, _, _)
AddOrUpdateAll(t, list, n) ==
    IF n = 0 THEN t ELSE AddOrUpdate(AddOrUpdateAll(t, list, n - 1), list[n])

fetchSampleData(t) == AddOrUpdateAll(t, SampleAircraft, Len(SampleAircraft))

\* a state vector of the feed without what processAircraftData needs
StateSkipped(state) ==
    state.icao24 = Null \/ Falsy(state.longitude) \/ Falsy(state.latitude)

MetersToFeet == Frac(328084, 100000)

ToFeet(v) == IF Falsy(v) THEN v ELSE Some(Mul(v[1], MetersToFeet))

\* the aircraft object built from a state vector, units converted
AircraftOfState(state) ==
    [icao24 |-> state.icao24[1], latitude |-> state.latitude[1],
     longitude |-> state.longitude[1],
     baro_altitude |-> ToFeet(state.baro_altitude),
     geo_altitude |-> ToFeet(state.geo_altitude)]

\* one pass of the removal loop for an address that was not seen
RemoveUnseenOne(t, icao24) ==
    IF t.selectedAircraft # Null /\ t.selectedAircraft[1].icao24 = icao24
    THEN closeFlightInfoPanel([removeAircraftMarker(t, icao24) EXCEPT !.selectedAircraft = Null])
    ELSE removeAircraftMarker(t, icao24)

RECURSIVE RemoveUnseen(_, _)
RemoveUnseen(t, unseen) ==
    IF unseen = {} THEN t
    ELSE RemoveUnseen(RemoveUnseenOne(t, CHOOSE i \in unseen : TRUE),
                      unseen \ {CHOOSE i \in unseen : TRUE})

\* the aircraft objects of the states the first loop does not skip
AircraftOfStates(states) ==
    [k \in 1..Len(SelectSeq(states, LAMBDA s : ~StateSkipped(s))) |->
       AircraftOfState(SelectSeq(states, LAMBDA s : ~StateSkipped(s))[k])]

SeenAircraft(list) == {list[k].icao24 : k \in 1..Len(list)}

Unseen(t, seenAircraft) == {i \in Icaos : t.aircraftMarkers[i] # Null /\ i \notin seenAircraft}

\* data is null, or its states are: nothing is done; else the indicator
\* turns green, the markers are added, updated and removed
processAircraftData(t, data) ==
    IF data = Null \/ data[1].states = Null THEN t
    ELSE RemoveUnseen(AddOrUpdateAll([t EXCEPT !.connectionStatus = StatusGreen,
                                               !.lastStates = data[1].states],
                                     AircraftOfStates(data[1].states[1]),
                                     Len(AircraftOfStates(data[1].states[1]))),
                      Unseen(AddOrUpdateAll(t, AircraftOfStates(data[1].states[1]),
                                            Len(AircraftOfStates(data[1].states[1]))),
                             SeenAircraft(AircraftOfStates(data[1].states[1]))))

\* the branch of toggleLiveTracking that stops tracking, the interval timer
\* left running
StopTracking_KeepsTimer(t) ==
    [t EXCEPT !.isLiveTracking = FALSE, !.connectionStatus = StatusRed, !.pollingInterval = Null]

\* the branch of toggleLiveTracking that stops tracking
StopTracking(t) ==
    [t EXCEPT !.isLiveTracking = FALSE, !.connectionStatus = StatusRed,
              !.intervals = IF t.pollingInterval # Null THEN @ \ {t.pollingInterval[1]} ELSE @,
              !.pollingInterval = Null]

\* the branch of toggleLiveTracking that starts tracking: the indicator
\* turns yellow, fetchLiveAircraftData issues a fetch, an interval timer is
\* started
StartTracking(t) ==
    [t EXCEPT !.isLiveTracking = TRUE, !.connectionStatus = StatusYellow,
              !.fetches = @ + 1, !.timerIds = @ + 1,
              !.pollingInterval = Some(t.timerIds + 1),
              !.intervals = @ \cup {t.timerIds + 1}]

toggleLiveTracking(t) ==
    IF ~t.isLiveTracking THEN StartTracking(t) ELSE StopTracking(t)

\* the catch of fetchLiveAircraftData
FetchFailed(t) ==
    [fetchSampleData([t EXCEPT !.connectionStatus = StatusRed])
        EXCEPT !.retryTimers = IF t.isLiveTracking THEN @ + 1 ELSE @]

\* the tracker page after the callback of the first initApp has run
TrackerLoaded == [fetchSampleData(TrackerPage) EXCEPT !.initApps = 1]

(***************************************************************************)
(* static/js/app.js: the page                                              *)
(***************************************************************************)
\* app.js as loaded (lines 2-9) and the page as index.html declares it: no
\* result, no timer pending, the export button disabled, no layer on the
\* map, no alert shown; aircraftTypes is the table of aircraft-data.js, an
\* object every script of the page can reach.  The other fields are history: centerOf, radiusOf,
\* pointsOf and layersOf name the request whose callback wrote the value
\* (0: none), clicks counts the clicks on the calculate button, submitted
\* holds the inputs each click read, pendingAtClick the requests whose
\* callback had not run when the last click came, ran the requests whose
\* callback has run, lastRun how the last callback ended and lastEvent the
\* handler that ran last.
PageInit ==
    [searchCenter |-> Null, searchRadius |-> Null, probabilityPoints |-> Null,
     aircraftTypes |-> aircraftTypes,
     centerOf |-> 0, radiusOf |-> 0, pointsOf |-> 0,
     layers |-> Null, layersOf |-> 0,
     timers |-> <<>>, exportDisabled |-> TRUE, alert |-> "",
     clicks |-> 0, submitted |-> <<>>, pendingAtClick |-> {}, ran |-> {},
     lastRun |-> "", lastEvent |-> ""]

NoCalls ==
    /\ page = PageInit
    /\ tracker = TrackerLoaded
    /\ calc = Null
    /\ sampled = Null
    /\ exportOut = Null
    /\ hung = FALSE
    /\ vm = VmIdle

Init ==
    /\ form \in SamplerForms
    /\ NoCalls

\* a call of calculateSearchArea on the inputs
CallEstimator ==
    /\ calc = Null
    /\ calc' = Some(Estimate(form))
    /\ UNCHANGED <<form, sampled, exportOut, hung, vm, page, tracker>>

\* a call of calculateProbabilityDistribution on the estimator's result that
\* returns: every vonMises call accepts an attempt
CallSampler(draws) ==
    /\ ~hung
    /\ calc # Null
    /\ sampled' = Some(Sample(form, calc[1], draws))
    /\ exportOut' = Null
    /\ UNCHANGED <<form, calc, hung, vm, page, tracker>>

\* a call of calculateProbabilityDistribution in which the rejection loop of
\* vonMises rejects every attempt (each like a): the call never returns
SamplerHangs(a) ==
    /\ ~hung
    /\ calc # Null
    /\ ~VonMisesAccepts(Num(Kappa), VonMisesRadius(Num(Kappa)), a.u1, a.u2)
    /\ hung' = TRUE
    /\ UNCHANGED <<form, calc, sampled, exportOut, vm, page, tracker>>

\* a call of exportSearchCoordinates on the estimator's result and the field
CallExporter(exportFormat) ==
    /\ ~hung
    /\ sampled # Null
    /\ exportOut' = Some(exportSearchCoordinates(calc[1].searchCenter,
                                                 calc[1].searchRadius,
                                                 sampled[1], exportFormat))
    /\ UNCHANGED <<form, calc, sampled, hung, vm, page, tracker>>

Next ==
    \/ CallEstimator
    \/ \E accepted \in {Accepted} :
          \E draws \in [1..form.numPoints -> Draws(accepted)] : CallSampler(draws)
    \/ \E a \in Attempt : SamplerHangs(a)
    \/ \E exportFormat \in {"csv", "geojson"} : CallExporter(exportFormat)

Spec == Init /\ [][Next]_vars

(***************************************************************************)
(* The estimator on its own: calculateSearchArea applied to inputs drawn   *)
(* from EstimatorForms                                                     *)
(***************************************************************************)
EstimatorInit ==
    /\ form \in EstimatorForms
    /\ NoCalls

EstimatorNext == CallEstimator

SpecEstimator == EstimatorInit /\ [][EstimatorNext]_vars

(***************************************************************************)
(* vonMises on its own, one step of the function at a time.  The engine    *)
(* keeps running a function that has a step to take, which is the weak     *)
(* fairness of SpecVonMises.                                               *)
(***************************************************************************)
\* the arguments of the calls: mu in multiples of Math.PI
Mus == {Frac(k, 4) : k \in -3..4}
Kappas == {Num(0), Num(Kappa)}

VmInit ==
    /\ form = Null
    /\ NoCalls

\* the call vonMises(mu, kappa) and the test of line 140
VmCall(mu, kappa) ==
    /\ vm.pc \in {"idle", "returned"}
    /\ vm' = [VmIdle EXCEPT !.pc = IF kappa = Num(0) THEN "uniform" ELSE "a",
                            !.mu = mu, !.kappa = kappa]
    /\ UNCHANGED <<form, calc, sampled, exportOut, hung, page, tracker>>

\* the return of line 141: 2 * Math.PI * Math.random() - Math.PI
VmUniform(u) ==
    /\ vm.pc = "uniform"
    /\ vm' = [vm EXCEPT !.pc = "returned", !.u1 = u,
                        !.value = Some(<<Sub(Mul(Num(2), u), Num(1)), 0, Num(1)>>)]
    /\ UNCHANGED <<form, calc, sampled, exportOut, hung, page, tracker>>

\* lines 145, 146 and 147
VmConstA ==
    /\ vm.pc = "a"
    /\ vm' = [vm EXCEPT !.pc = "b", !.a = VonMisesA(vm.kappa)]
    /\ UNCHANGED <<form, calc, sampled, exportOut, hung, page, tracker>>

VmConstB ==
    /\ vm.pc = "b"
    /\ vm' = [vm EXCEPT !.pc = "r", !.b = VonMisesB(vm.kappa, vm.a)]
    /\ UNCHANGED <<form, calc, sampled, exportOut, hung, page, tracker>>

VmConstR ==
    /\ vm.pc = "r"
    /\ vm' = [vm EXCEPT !.pc = "loop", !.r = VonMisesR(vm.b)]
    /\ UNCHANGED <<form, calc, sampled, exportOut, hung, page, tracker>>

\* the head of a pass of the while (true) loop: lines 152 and 153
VmDrawU1(u1) ==
    /\ vm.pc = "loop"
    /\ vm' = [vm EXCEPT !.pc = "f", !.u1 = u1, !.z = VonMisesZ(u1)]
    /\ UNCHANGED <<form, calc, sampled, exportOut, hung, page, tracker>>

\* lines 154 and 155
VmComputeF ==
    /\ vm.pc = "f"
    /\ vm' = [vm EXCEPT !.pc = "c", !.f = VonMisesF(vm.r, vm.z)]
    /\ UNCHANGED <<form, calc, sampled, exportOut, hung, page, tracker>>

VmComputeC ==
    /\ vm.pc = "c"
    /\ vm' = [vm EXCEPT !.pc = "test", !.c = VonMisesC(vm.kappa, vm.r, vm.f)]
    /\ UNCHANGED <<form, calc, sampled, exportOut, hung, page, tracker>>

\* lines 157 and 158: a rejected attempt goes back to the head of the loop
VmTest(u2) ==
    /\ vm.pc = "test"
    /\ vm' = [vm EXCEPT !.pc = IF VonMisesTest(vm.c, u2) THEN "accepted" ELSE "loop",
                        !.u2 = u2]
    /\ UNCHANGED <<form, calc, sampled, exportOut, hung, page, tracker>>

\* the return inside the loop (lines 159-160)
VmReturn(u3) ==
    /\ vm.pc = "accepted"
    /\ vm' = [vm EXCEPT !.pc = "returned", !.u3 = u3,
                        !.value = Some(VonMisesValue(vm.mu, vm.f, u3))]
    /\ UNCHANGED <<form, calc, sampled, exportOut, hung, page, tracker>>

VmNext ==
    \/ \E mu \in Mus, kappa \in Kappas : VmCall(mu, kappa)
    \/ \E u \in U1Draws : VmUniform(u)
    \/ VmConstA
    \/ VmConstB
    \/ VmConstR
    \/ \E u1 \in U1Draws : VmDrawU1(u1)
    \/ VmComputeF
    \/ VmComputeC
    \/ \E u2 \in U2Draws : VmTest(u2)
    \/ \E u3 \in U3Draws : VmReturn(u3)

SpecVonMises == VmInit /\ [][VmNext]_vars /\ WF_vars(VmNext)

(***************************************************************************)
(* The functions of search-algorithms.js called on their own, on arguments *)
(* of the caller's choice.  A call either returns a value or throws.       *)
(***************************************************************************)
Undefined == <<"undefined">>

Returned(v) == [thrown |-> FALSE, value |-> v]
Thrown(e) == [thrown |-> TRUE, value |-> e]

\* the worked example of the documentation
ExampleForm ==
    [latitude |-> Frac(377749, 10000), longitude |-> Frac(-1224194, 10000),
     altitude |-> Num(30000), groundSpeed |-> Num(450), heading |-> Num(90),
     verticalSpeed |-> Num(0), windSpeed |-> Num(15), windDirection |-> Num(270),
     searchRadiusMultiplier |-> Num(2), numPoints |-> 1, aircraftType |-> "boeing737"]

\* the arguments of the estimator: aircraftSpecs is aircraftTypes[aircraftType],
\* undefined for a type the table does not hold
EstimatorArgs ==
    [latitude : Latitudes, longitude : Longitudes, altitude : {Num(0), Num(6076)},
     groundSpeed : {Num(450)}, heading : Headings, verticalSpeed : {Num(-1000), Num(0)},
     windSpeed : WindSpeeds, windDirection : WindDirections,
     searchRadiusMultiplier : {Num(2)}, numPoints : {1},
     aircraftType : AircraftTypeKeys \cup {"glider"}]
    \cup {ExampleForm}

\* calculateSearchArea on the arguments q: reading glide_ratio of an undefined
\* aircraftSpecs (line 82) throws a TypeError
EstimatorOutcome(q) ==
    IF q.aircraftType \in DOMAIN aircraftTypes
    THEN Returned(Estimate(q))
    ELSE Thrown("TypeError")

\* the aircraftSpecs argument for the arguments q
ProfileOf(q) ==
    IF q.aircraftType \in DOMAIN aircraftTypes THEN aircraftTypes[q.aircraftType] ELSE Undefined

(***************************************************************************)
(* The writes of calculateSearchArea and of getDestinationPoint, which it  *)
(* calls.  A statement is the line it stands on, its kind (a const or let  *)
(* declaration, or an assignment), the targets it writes and the functions *)
(* it calls that write themselves (toRadians, toDegrees and Math.* have no *)
(* writing statement).  A target is a path: <<name>> for a variable,       *)
(* <<name, property>> for a property of the object the variable holds.     *)
(***************************************************************************)
Statement(line, kind, targets, calls) ==
    [line |-> line, kind |-> kind, targets |-> targets, calls |-> calls]

\* getDestinationPoint (lines 55-73): it assigns to three of its parameters
getDestinationPointCode ==
    [name |-> "getDestinationPoint",
     parameters |-> {"lat", "lon", "bearing", "distance"},
     body |-> <<Statement(57, "assign", << <<"lat">> >>, <<>>),
                Statement(58, "assign", << <<"lon">> >>, <<>>),
                Statement(59, "assign", << <<"bearing">> >>, <<>>),
                Statement(62, "const", << <<"earthRadius">> >>, <<>>),
                Statement(65, "const", << <<"lat2">> >>, <<>>),
                Statement(68, "const", << <<"lon2">> >>, <<>>)>>]

EstimatorParameters ==
    {"latitude", "longitude", "altitude", "groundSpeed", "heading", "verticalSpeed",
     "windSpeed", "windDirection", "aircraftSpecs", "searchRadiusMultiplier"}

\* lines 79-117 of calculateSearchArea
EstimatorBodyTo117 ==
    <<Statement(79, "const", << <<"altitudeNm">> >>, <<>>),
      Statement(82, "const", << <<"glideDistance">> >>, <<>>),
      Statement(86, "let", << <<"timeToImpactMinutes">> >>, <<>>),
      Statement(87, "assign", << <<"timeToImpactMinutes">> >>, <<>>),
      Statement(95, "const", << <<"timeToImpactHours">> >>, <<>>),
      Statement(98, "const", << <<"horizontalDistance">> >>, <<>>),
      Statement(101, "const", << <<"initialCenterLat">>, <<"initialCenterLon">> >>,
                <<"getDestinationPoint">>),
      Statement(106, "const", << <<"windDistance">> >>, <<>>),
      Statement(109, "const", << <<"finalCenterLat">>, <<"finalCenterLon">> >>,
                <<"getDestinationPoint">>),
      Statement(114, "const", << <<"baseRadius">> >>, <<>>),
      Statement(117, "const", << <<"windUncertainty">> >>, <<>>)>>

\* the statements of calculateSearchArea (lines 79-120)
EstimatorBody_AssignsSearchRadius ==
    Append(EstimatorBodyTo117, Statement(120, "assign", << <<"searchRadius">> >>, <<>>))

EstimatorBody ==
    Append(EstimatorBodyTo117, Statement(120, "const", << <<"searchRadius">> >>, <<>>))

calculateSearchAreaCode ==
    [name |-> "calculateSearchArea", parameters |-> EstimatorParameters,
     body |-> EstimatorBody]

\* the names local to a function: its parameters and what its body declares
\* (const and let are scoped to the whole body)
LocalNames(code) ==
    code.parameters
    \cup UNION {{code.body[i].targets[k][1] : k \in DOMAIN code.body[i].targets} :
                  i \in {j \in DOMAIN code.body : code.body[j].kind \in {"const", "let"}}}

\* the statements a call of the function runs, in order, each with the
\* function it belongs to: a statement that calls getDestinationPoint runs
\* the body of getDestinationPoint first
RECURSIVE StatementsRun(_, _)
StatementsRun(code, i) ==
    IF i > Len(code.body) THEN <<>>
    ELSE (IF "getDestinationPoint" \in {code.body[i].calls[k] : k \in DOMAIN code.body[i].calls}
          THEN StatementsRun(getDestinationPointCode, 1)
          ELSE <<>>)
         \o <<[code |-> code, statement |-> code.body[i]]>>
         \o StatementsRun(code, i + 1)

\* reading glide_ratio of an undefined aircraftSpecs throws at line 82: the
\* statements from there on do not run
RECURSIVE StatementsBefore(_, _)
StatementsBefore(run, line) ==
    IF run = <<>> \/ (Head(run).code.name = "calculateSearchArea"
                      /\ Head(run).statement.line >= line)
    THEN <<>>
    ELSE <<Head(run)>> \o StatementsBefore(Tail(run), line)

\* the value the statement on the given line of the estimator gives its k-th
\* target, q being the arguments and r the values of the call; the values
\* inside getDestinationPoint (radians and trigonometry) are kept as the
\* line that computes them, and a coordinate of a destination as the
\* destination it is taken from
StatementValue(code, line, k, q, r) ==
    CASE code.name = "getDestinationPoint" -> <<"getDestinationPoint", line>>
      [] line = 79 -> Div(q.altitude, Num(FeetPerNm))
      [] line = 82 -> r.glideDistance
      [] line = 86 -> Undefined
      [] line = 87 -> r.timeToImpactMinutes
      [] line = 95 -> r.timeToImpactHours
      [] line = 98 -> r.horizontalDistance
      [] line = 101 -> <<IF k = 1 THEN "lat" ELSE "lon",
                         getDestinationPoint(Position(q.latitude, q.longitude),
                                             q.heading, r.horizontalDistance)>>
      [] line = 106 -> r.windDistance
      [] line = 109 -> <<IF k = 1 THEN "lat" ELSE "lon", r.searchCenter>>
      [] line = 114 -> r.baseRadius
      [] line = 117 -> r.windUncertainty
      [] line = 120 -> r.searchRadius

\* one write in the function code, on the globals of the page: a variable
\* local to the function is gone when the call returns; any other name is a
\* global, assigned or created; a property of aircraftSpecs is a property of
\* the entry of aircraftTypes that was handed in
Write(globals, code, path, v, q) ==
    IF Len(path) = 1
    THEN (IF path[1] \in LocalNames(code) THEN globals
          ELSE IF path[1] \in DOMAIN globals THEN [globals EXCEPT ![path[1]] = Some(v)]
          ELSE (path[1] :> Some(v)) @@ globals)
    ELSE (IF path[1] = "aircraftSpecs" /\ q.aircraftType \in DOMAIN globals.aircraftTypes
          THEN [globals EXCEPT !.aircraftTypes[q.aircraftType][path[2]] = v]
          ELSE globals)

\* the writes of the statements run, in order, target by target
RECURSIVE WriteAll(_, _, _, _, _)
WriteAll(globals, run, k, q, r) ==
    IF run = <<>> THEN globals
    ELSE IF k > Len(Head(run).statement.targets) THEN WriteAll(globals, Tail(run), 1, q, r)
    ELSE WriteAll(Write(globals, Head(run).code, Head(run).statement.targets[k],
                        StatementValue(Head(run).code, Head(run).statement.line, k, q, r), q),
                  run, k + 1, q, r)

\* what a call of calculateSearchArea leaves behind, on the page whose
\* globals are given: its outcome, computed from the entry of aircraftTypes
\* the caller looked up (undefined for a type the table does not hold), and
\* the globals after the writes of the statements it ran
EstimatorEffect(q, globals) ==
    IF q.aircraftType \in DOMAIN globals.aircraftTypes
    THEN [outcome |-> Returned(calculateSearchArea(q.latitude, q.longitude, q.altitude,
                                   q.groundSpeed, q.heading, q.verticalSpeed, q.windSpeed,
                                   q.windDirection, globals.aircraftTypes[q.aircraftType],
                                   q.searchRadiusMultiplier)),
          globals |-> WriteAll(globals, StatementsRun(calculateSearchAreaCode, 1), 1, q,
                               calculateSearchArea(q.latitude, q.longitude, q.altitude,
                                   q.groundSpeed, q.heading, q.verticalSpeed, q.windSpeed,
                                   q.windDirection, globals.aircraftTypes[q.aircraftType],
                                   q.searchRadiusMultiplier))]
    ELSE [outcome |-> Thrown("TypeError"),
          globals |-> WriteAll(globals,
                               StatementsBefore(StatementsRun(calculateSearchAreaCode, 1), 82),
                               1, q, Undefined)]

\* the aircraftSpecs object of the call on q, as the globals hold it
ProfileIn(globals, q) ==
    IF q.aircraftType \in DOMAIN globals.aircraftTypes
    THEN globals.aircraftTypes[q.aircraftType]
    ELSE Undefined

\* the number of points of a field handed to the exporter
MaxFieldLen == 2

\* the fields handed to the exporter: points [lat, lon, probability]
FieldPosition == Position(Num(38), Num(-122))
FieldProbabilities == {Frac(1, 5), Frac(1, 2), Num(1)}
Fields ==
    UNION {[1..n -> {<<FieldPosition, pr>> : pr \in FieldProbabilities}] : n \in 0..MaxFieldLen}

\* the arguments of the exporter
ExporterArgs ==
    [searchCenter : {Position(Frac(377749, 10000), Frac(-1224194, 10000))},
     searchRadius : {Undefined, Num(0), Num(10)},
     probabilityPoints : Fields]

\* exportSearchCoordinates on the arguments q.  An undefined searchRadius is
\* NaN in the arithmetic of getDestinationPoint; the GeoJSON branch calls
\* searchRadius.toFixed(2) (line 307), which throws a TypeError on undefined.
ExporterOutcome(q, exportFormat) ==
    IF q.searchRadius = Undefined
    THEN (IF exportFormat = "csv"
          THEN Returned(exportSearchCoordinates(q.searchCenter, NaN,
                                                q.probabilityPoints, exportFormat))
          ELSE Thrown("TypeError"))
    ELSE Returned(exportSearchCoordinates(q.searchCenter, q.searchRadius,
                                          q.probabilityPoints, exportFormat))

\* the weights of the sampler (lines 174-175)
HeadingWeight(windSpeed) == Sub(Num(1), WindWeight(windSpeed))

SamplerWeights(windSpeed) ==
    [windWeight |-> WindWeight(windSpeed), headingWeight |-> HeadingWeight(windSpeed)]

WeightWindSpeeds ==
    {Num(0), Num(15), Num(39), Num(40), Num(41), Num(50), Num(200), Frac(1, 2)}

NoCall == [op |-> "none"]

CallsInit ==
    /\ form = NoCall
    /\ NoCalls

EstimatorCall(q) ==
    /\ \E out \in {EstimatorEffect(q, page)} :
          /\ form' = [op |-> "calculateSearchArea", args |-> q,
                       aircraftSpecs |-> ProfileIn(out.globals, q)]
          /\ calc' = Some(out.outcome)
          /\ page' = out.globals
    /\ sampled' = Null
    /\ exportOut' = Null
    /\ UNCHANGED <<hung, vm, tracker>>

WeightsCall(windSpeed) ==
    /\ form' = [op |-> "calculateProbabilityDistribution", args |-> [windSpeed |-> windSpeed]]
    /\ sampled' = Some(SamplerWeights(windSpeed))
    /\ calc' = Null
    /\ exportOut' = Null
    /\ UNCHANGED <<hung, vm, page, tracker>>

ExporterCall(q, exportFormat) ==
    /\ form' = [op |-> "exportSearchCoordinates", args |-> q, exportFormat |-> exportFormat]
    /\ exportOut' = Some(ExporterOutcome(q, exportFormat))
    /\ calc' = Null
    /\ sampled' = Null
    /\ UNCHANGED <<hung, vm, page, tracker>>

CallsNext ==
    \/ \E q \in EstimatorArgs : EstimatorCall(q)
    \/ \E windSpeed \in WeightWindSpeeds : WeightsCall(windSpeed)
    \/ \E q \in ExporterArgs, exportFormat \in {"csv", "geojson"} : ExporterCall(q, exportFormat)

SpecCalls == CallsInit /\ [][CallsNext]_vars

(***************************************************************************)
(* The two destination-point functions on arguments where the spherical    *)
(* formula is exact: getDestinationPoint of search-algorithms.js and        *)
(* calculateDestinationPoint of aircraft-tracker/js/glide-prediction.js.   *)
(* The distance is given as the angle distance / earthRadius it subtends,  *)
(* in multiples of Math.PI, the unit of length being the one each function *)
(* expects (nautical miles, meters).                                       *)
(***************************************************************************)

\* a % b of JavaScript: the remainder has the sign of a
Trunc(a) == IF a[1] >= 0 THEN a[1] \div a[2] ELSE -((-a[1]) \div a[2])

JsRem(a, b) == Sub(a, Mul(b, Num(Trunc(Div(a, b)))))

\* lat2 and lon2 of the direct formula, in radians
DestinationLat(lat, bearing, angularDistance) ==
    MathAsin(Add(Mul(MathSin(lat), MathCos(angularDistance)),
                 Mul(Mul(MathCos(lat), MathSin(angularDistance)), MathCos(bearing))))

DestinationLon(lat, lon, bearing, angularDistance, lat2) ==
    Add(lon, MathAtan2(Mul(Mul(MathSin(bearing), MathSin(angularDistance)), MathCos(lat)),
                       Sub(MathCos(angularDistance), Mul(MathSin(lat), MathSin(lat2)))))

\* getDestinationPoint(lat, lon, bearing, distance): [lat2, lon2] in degrees
getDestinationPointOnGrid(lat, lon, bearing, angularDistance) ==
    LET Result(latRad, lonRad, bearingRad) ==
            <<toDegrees(DestinationLat(latRad, bearingRad, angularDistance)),
              toDegrees(DestinationLon(latRad, lonRad, bearingRad, angularDistance,
                                       DestinationLat(latRad, bearingRad, angularDistance)))>>
    IN  Result(toRadians(lat), toRadians(lon), toRadians(bearing))

\* the longitude as calculateDestinationPoint returns it
NormalizeLongitude_To360(lonDegrees) ==
    JsRem(Add(lonDegrees, Num(360)), Num(360))

NormalizeLongitude(lonDegrees) ==
    Sub(JsRem(Add(lonDegrees, Num(540)), Num(360)), Num(180))

\* calculateDestinationPoint(startPoint, bearing, distance)
calculateDestinationPoint(startPoint, bearing, angularDistance) ==
    LET Result(lat1, lon1, bearingRad) ==
            <<toDegrees(DestinationLat(lat1, bearingRad, angularDistance)),
              NormalizeLongitude(
                  toDegrees(DestinationLon(lat1, lon1, bearingRad, angularDistance,
                                           DestinationLat(lat1, bearingRad, angularDistance))))>>
    IN  Result(toRadians(startPoint[1]), toRadians(startPoint[2]), toRadians(bearing))

\* the arguments: a start on the equator and a course due east or due west,
\* or a start at any latitude and distance 0
GeoArgs ==
    [lat : {Num(0)},
     lon : {Num(-180), Num(-179), Num(-135), Num(-90), Num(-1), Num(0),
            Num(90), Num(135), Num(179), Num(180)},
     bearing : {Num(90), Num(270)},
     angularDistance : {Num(0), Frac(1, 4), Frac(1, 2)}]
    \cup
    [lat : {Num(-90), Num(0), Num(45), Num(90)},
     lon : {Num(-180), Num(0), Num(135), Num(180)},
     bearing : {Num(0), Num(90), Num(180), Num(270)},
     angularDistance : {Num(0)}]

GeoInit ==
    /\ form = NoCall
    /\ NoCalls

GetDestinationPointCall(q) ==
    /\ form' = [op |-> "getDestinationPoint", args |-> q]
    /\ calc' = Some(Returned(getDestinationPointOnGrid(q.lat, q.lon, q.bearing,
                                                       q.angularDistance)))
    /\ UNCHANGED <<sampled, exportOut, hung, vm, page, tracker>>

CalculateDestinationPointCall(q) ==
    /\ form' = [op |-> "calculateDestinationPoint", args |-> q]
    /\ calc' = Some(Returned(calculateDestinationPoint(<<q.lat, q.lon>>, q.bearing,
                                                       q.angularDistance)))
    /\ UNCHANGED <<sampled, exportOut, hung, vm, page, tracker>>

GeoNext ==
    \/ \E q \in GeoArgs : GetDestinationPointCall(q)
    \/ \E q \in GeoArgs : CalculateDestinationPointCall(q)

SpecGeo == GeoInit /\ [][GeoNext]_vars

(***************************************************************************)
(* app.js: the page.  index.html loads aircraft-data.js,                   *)
(* search-algorithms.js and app.js in this order as classic scripts, so a  *)
(* function declaration of a later script replaces the global binding of   *)
(* an earlier declaration of the same name.                                *)
(***************************************************************************)
Scripts ==
    <<[name |-> "aircraft-data.js",
       declares |-> {"updateAircraftSpecs"}],
      [name |-> "search-algorithms.js",
       declares |-> {"toRadians", "toDegrees", "haversineDistance", "calculateBearing",
                     "getDestinationPoint", "calculateSearchArea", "randn", "vonMises",
                     "calculateProbabilityDistribution", "exportSearchCoordinates"}],
      [name |-> "app.js",
       declares |-> {"initAccordion", "calculateSearchArea", "updateMap",
                     "updateResultsDisplay", "exportData"}]>>

Declaring(name) == {i \in DOMAIN Scripts : name \in Scripts[i].declares}

\* the script whose declaration the global name is bound to once the page
\* has loaded
GlobalFunction(name) ==
    Scripts[CHOOSE i \in Declaring(name) : \A j \in Declaring(name) : j <= i].name

\* the clicks on the calculate button
MaxClicks == 2

\* the values of the input fields
PageForms == {q \in SamplerForms : q.numPoints = 1 /\ Le(Num(0), q.altitude)}

CalculateAlert ==
    "An error occurred while calculating the search area. Please check your inputs and try again."

\* calculateSearchArea of app.js (lines 97-167): the inputs q are read and
\* the callback is handed to setTimeout; timers of equal delay fire in the
\* order they were set
Submit(p, q, req) == [p EXCEPT !.timers = Append(@, [req |-> req, args |-> q])]

\* the callback of request t when the call of line 123 runs the handler of
\* app.js: the handler reads the inputs q and sets a timer again, returns
\* undefined, and results.searchCenter (line 136) throws a TypeError before
\* anything is assigned; the catch block alerts
CallbackCallsHandler(p, t, q) ==
    [Submit([p EXCEPT !.timers = Tail(@)], q, t.req)
        EXCEPT !.alert = CalculateAlert, !.ran = @ \cup {t.req}, !.lastRun = "failed"]

\* the callback of request t after lines 136-137
CallbackStores(p, t, results) ==
    [p EXCEPT !.timers = Tail(@),
              !.searchCenter = Some(results.searchCenter), !.centerOf = t.req,
              !.searchRadius = Some(results.searchRadius), !.radiusOf = t.req]

\* updateMap (lines 170-235) for request req, as far as it gets: the old
\* layers are removed, the marker of the last position and the circle of the
\* search radius are added (lines 172-196), and L.heatLayer (line 204) throws
\* a TypeError, because the scripts index.html loads (heatmap.js and
\* leaflet-heatmap, lines 347-348 of the page) define HeatmapOverlay and no
\* L.heatLayer: no heat layer and no marker of a high-probability point is
\* added
updateMap(p, req, searchCenter, searchRadius) ==
    [p EXCEPT !.layers = Some([searchCenter |-> Some(searchCenter),
                               searchRadius |-> Some(searchRadius),
                               probabilityPoints |-> Null]),
              !.layersOf = req]

\* the callback of request t when the sampler returned the field points
\* (lines 136-152): the three values are stored, updateMap throws, the catch
\* block alerts and line 158 is not reached
CallbackFailsInUpdateMap(p, t, results, points) ==
    [updateMap([CallbackStores(p, t, results)
                   EXCEPT !.probabilityPoints = Some(points), !.pointsOf = t.req],
               t.req, results.searchCenter, results.searchRadius)
        EXCEPT !.alert = CalculateAlert, !.ran = @ \cup {t.req}, !.lastRun = "failed"]

\* the ways the callback of request t can end, q being the inputs at that
\* time.  The name is bound to the handler of app.js.  Were it bound to the
\* estimator, the callback would end in the catch block after updateMap
\* threw, or never when vonMises rejects every attempt.
CallbackOutcomes(p, t, q) ==
    IF GlobalFunction("calculateSearchArea") = "app.js"
    THEN {[page |-> CallbackCallsHandler(p, t, q), hung |-> FALSE]}
    ELSE {[page |-> CallbackFailsInUpdateMap(p, t, Estimate(t.args),
                                      Sample(t.args, Estimate(t.args), draws)),
           hung |-> FALSE] : draws \in [1..1 -> Draws(Accepted)]}
         \cup {[page |-> CallbackStores(p, t, Estimate(t.args)), hung |-> TRUE] :
                 a \in Attempt \ Accepted}

PageLoaded ==
    /\ form \in PageForms
    /\ NoCalls

\* the user changes the input fields
EditInputs(q) ==
    /\ ~hung
    /\ q # form
    /\ form' = q
    /\ UNCHANGED <<calc, sampled, exportOut, hung, vm, page, tracker>>

\* a click on the calculate button
ClickCalculate ==
    /\ ~hung
    /\ page.clicks < MaxClicks
    /\ page' = [Submit(page, form, page.clicks + 1)
                   EXCEPT !.clicks = @ + 1,
                          !.submitted = Append(@, form),
                          !.pendingAtClick = (1..page.clicks) \ page.ran,
                          !.lastEvent = "click"]
    /\ UNCHANGED <<form, calc, sampled, exportOut, hung, vm, tracker>>

\* the timer set first fires
RunCallback ==
    /\ ~hung
    /\ page.timers # <<>>
    /\ \E out \in CallbackOutcomes(page, Head(page.timers), form) :
          /\ page' = [out.page EXCEPT !.lastEvent = "callback"]
          /\ hung' = out.hung
    /\ UNCHANGED <<form, calc, sampled, exportOut, vm, tracker>>

PageNext ==
    \/ \E q \in PageForms : EditInputs(q)
    \/ ClickCalculate
    \/ RunCallback

SpecPage == PageLoaded /\ [][PageNext]_vars

(***************************************************************************)
(* app.js: exportData, called on its own on the page (index.html keeps the *)
(* export button disabled until a callback enables it)                     *)
(***************************************************************************)
ExportAlert == "Please calculate search area first."

\* the guard of exportData (line 251)
ExportBlocked_Never(p) == FALSE

ExportBlocked(p) ==
    Falsy(p.searchCenter) \/ Falsy(p.searchRadius) \/ Falsy(p.probabilityPoints)

\* exportSearchCoordinates throws on the globals of p: it indexes
\* searchCenter, filters probabilityPoints and, for GeoJSON, calls
\* searchRadius.toFixed
ExportThrows(p, exportFormat) ==
    \/ p.searchCenter = Null
    \/ p.probabilityPoints = Null
    \/ p.searchRadius = Null /\ exportFormat # "csv"

\* exportData (lines 250-290): the alert it raises and the data it hands to
\* the download link.  A null radius is 0 in the arithmetic of the exporter.
ExportDataOutcome(p, exportFormat) ==
    IF ExportBlocked(p)
    THEN [alert |-> ExportAlert, download |-> Null]
    ELSE IF ExportThrows(p, exportFormat)
    THEN [alert |-> p.alert, download |-> Null]
    ELSE [alert |-> p.alert,
          download |-> Some(exportSearchCoordinates(
                                p.searchCenter[1],
                                IF p.searchRadius = Null THEN Num(0) ELSE p.searchRadius[1],
                                p.probabilityPoints[1], exportFormat))]

\* a call of exportData, the export format being the one selected
ExportDataCall(exportFormat) ==
    /\ ~hung
    /\ \E out \in {ExportDataOutcome(page, exportFormat)} :
          /\ page' = [page EXCEPT !.alert = out.alert, !.lastEvent = "exportData"]
          /\ exportOut' = out.download
    /\ UNCHANGED <<form, calc, sampled, hung, vm, tracker>>

ExportPageNext ==
    \/ PageNext
    \/ \E exportFormat \in {"csv", "geojson"} : ExportDataCall(exportFormat)

SpecExportData == PageLoaded /\ [][ExportPageNext]_vars

(***************************************************************************)
(* aircraft-tracker: the handlers of the page (SpecTracker)                *)
(*                                                                         *)
(* The user toggles live tracking, clicks markers, searches, asks for a    *)
(* glide prediction and closes the panel; interval timers tick, fetches    *)
(* are answered or fail, retry timers fire, in any order.                  *)
(***************************************************************************)
MaxTimers == 2         \* interval timers started in one behaviour
MaxFetches == 1        \* fetches in flight at one time
MaxRetryTimers == 1    \* 2-second timers pending at one time

\* state vectors of the feed (altitudes in meters): one aircraft at two
\* moments, an aircraft on the prime meridian, a vector without address
\* and one without position
StateA1 ==
    [icao24 |-> Some("3c6444"), longitude |-> Some(Num(-74)), latitude |-> Some(Frac(407, 10)),
     baro_altitude |-> Some(Num(10000)), geo_altitude |-> Some(Num(10000))]
StateA2 ==
    [icao24 |-> Some("3c6444"), longitude |-> Some(Frac(-739, 10)), latitude |-> Some(Frac(408, 10)),
     baro_altitude |-> Some(Num(9000)), geo_altitude |-> Some(Num(9000))]
StateOnMeridian ==
    [icao24 |-> Some("400f01"), longitude |-> Some(Num(0)), latitude |-> Some(Frac(515, 10)),
     baro_altitude |-> Some(Num(11000)), geo_altitude |-> Null]
StateNoAddress ==
    [icao24 |-> Null, longitude |-> Some(Num(-74)), latitude |-> Some(Frac(407, 10)),
     baro_altitude |-> Some(Num(10000)), geo_altitude |-> Null]
StateNoPosition ==
    [icao24 |-> Some("400f01"), longitude |-> Null, latitude |-> Null,
     baro_altitude |-> Null, geo_altitude |-> Null]

\* the bodies of the responses: states null, and arrays of state vectors
FeedData ==
    {Some([states |-> Null])}
    \cup {Some([states |-> Some(states)]) :
            states \in {<<>>, <<StateA1>>, <<StateA2>>, <<StateA1, StateA2>>,
                        <<StateOnMeridian>>, <<StateA1, StateOnMeridian>>,
                        <<StateNoAddress, StateA2>>, <<StateNoPosition>>}}

\* the markers the user clicks and the addresses the user searches for
ClickedIcaos == {"3c6444", "a808c5"}

NotFoundAlert(searchType, searchValue) ==
    "No aircraft found matching " \o searchType \o ": " \o searchValue

\* searchAircraft for search type icao24 and a whole address as the value
searchAircraft(t, searchValue) ==
    IF t.aircraftMarkers[searchValue] # Null
    THEN selectAircraft(t, t.aircraftMarkers[searchValue][1].data)
    ELSE [t EXCEPT !.alert = NotFoundAlert("icao24", searchValue)]

\* the callback of the second initApp: the map is initialized and the
\* listeners are attached already, the sample data is loaded again
SecondInitApp ==
    /\ tracker.initApps > 0
    /\ tracker' = fetchSampleData([Event(tracker, "initApp") EXCEPT !.initApps = @ - 1])
    /\ UNCHANGED <<form, calc, sampled, exportOut, hung, vm, page>>

\* a click on the live tracking button
ToggleLiveTracking ==
    /\ tracker.isLiveTracking
       \/ (tracker.timerIds < MaxTimers /\ tracker.fetches < MaxFetches)
    /\ tracker' = toggleLiveTracking(Event(tracker, "toggleLiveTracking"))
    /\ UNCHANGED <<form, calc, sampled, exportOut, hung, vm, page>>

\* an active interval timer calls fetchLiveAircraftData
IntervalFires ==
    /\ tracker.intervals # {}
    /\ tracker.fetches < MaxFetches
    /\ tracker' = [Event(tracker, "interval") EXCEPT !.fetches = @ + 1]
    /\ UNCHANGED <<form, calc, sampled, exportOut, hung, vm, page>>

\* a fetch is answered with a body that parses: processAircraftData(data)
ResponseArrives(data) ==
    /\ tracker.fetches > 0
    /\ tracker' = processAircraftData([Event(tracker, "response") EXCEPT !.fetches = @ - 1],
                                      data)
    /\ UNCHANGED <<form, calc, sampled, exportOut, hung, vm, page>>

\* a fetch fails, or its response is not ok: the catch runs
FetchFails ==
    /\ tracker.fetches > 0
    /\ ~tracker.isLiveTracking \/ tracker.retryTimers < MaxRetryTimers
    /\ tracker' = FetchFailed([Event(tracker, "catch") EXCEPT !.fetches = @ - 1])
    /\ UNCHANGED <<form, calc, sampled, exportOut, hung, vm, page>>

\* a 2-second timer of the catch fires
RetryTimerFires ==
    /\ tracker.retryTimers > 0
    /\ tracker' = [Event(tracker, "retryTimer") EXCEPT !.retryTimers = @ - 1,
                                                       !.connectionStatus = StatusYellow]
    /\ UNCHANGED <<form, calc, sampled, exportOut, hung, vm, page>>

\* a click on the marker of an aircraft: the handler addAircraftMarker
\* attached, with the aircraft object it closed over
ClickMarker(icao24) ==
    /\ tracker.aircraftMarkers[icao24] # Null
    /\ tracker' = selectAircraft(Event(tracker, "click"),
                                 tracker.aircraftMarkers[icao24][1].click)
    /\ UNCHANGED <<form, calc, sampled, exportOut, hung, vm, page>>

\* a click on the search button
SearchClicked(searchValue) ==
    /\ tracker' = searchAircraft(Event(tracker, "searchAircraft"), searchValue)
    /\ UNCHANGED <<form, calc, sampled, exportOut, hung, vm, page>>

\* a click on the glide prediction button
GlideClicked ==
    /\ tracker' = calculateGlidePrediction(Event(tracker, "calculateGlidePrediction"))
    /\ UNCHANGED <<form, calc, sampled, exportOut, hung, vm, page>>

\* a click on the close button of the flight info panel
CloseClicked ==
    /\ tracker' = closeFlightInfoPanel(Event(tracker, "closeFlightInfoPanel"))
    /\ UNCHANGED <<form, calc, sampled, exportOut, hung, vm, page>>

TrackerInit ==
    /\ form = Null
    /\ NoCalls

TrackerNext ==
    \/ SecondInitApp
    \/ ToggleLiveTracking
    \/ IntervalFires
    \/ \E data \in FeedData : ResponseArrives(data)
    \/ FetchFails
    \/ RetryTimerFires
    \/ \E icao24 \in ClickedIcaos : ClickMarker(icao24)
    \/ \E searchValue \in ClickedIcaos : SearchClicked(searchValue)
    \/ GlideClicked
    \/ CloseClicked

SpecTracker == TrackerInit /\ [][TrackerNext]_vars

(***************************************************************************)
(* Properties of the estimator (under SpecEstimator)                       *)
(***************************************************************************)
\* the inputs the estimator's contract admits
ValidInputs(q) ==
    /\ Le(Num(0), q.altitude)
    /\ Le(Num(0), q.groundSpeed)
    /\ Le(Num(1), q.searchRadiusMultiplier)
    /\ Gt(aircraftTypes[q.aircraftType].glide_ratio, Num(0))
    /\ Gt(aircraftTypes[q.aircraftType].emergency_descent_rate, Num(0))

\* C1: for every altitude >= 0 and positive emergency descent rate, the
\* estimator's time to impact in minutes is altitude / |verticalSpeed| when
\* verticalSpeed < 0 and altitude / emergencyDescentRate when
\* verticalSpeed >= 0, level flight and climb alike.
C1_TimeToImpact ==
    (/\ calc # Null
     /\ Le(Num(0), form.altitude)
     /\ Gt(aircraftTypes[form.aircraftType].emergency_descent_rate, Num(0)))
    => calc[1].timeToImpactMinutes =
           IF Lt(form.verticalSpeed, Num(0))
           THEN Div(form.altitude, MathAbs(form.verticalSpeed))
           ELSE Div(form.altitude,
                    aircraftTypes[form.aircraftType].emergency_descent_rate)

\* the estimator has returned for level flight at 6076 ft of a Boeing 737
C1_Witness ==
    /\ calc # Null
    /\ form.altitude = Num(6076)
    /\ form.verticalSpeed = Num(0)
    /\ form.aircraftType = "boeing737"
    /\ calc[1].timeToImpactMinutes = Frac(6076, 4000)

\* C2: the radius the estimator returns is
\* (max(glideDistance, groundSpeed * tHours) + 0.2 * windSpeed * tHours)
\* * radiusMultiplier; for inputs the contract admits it is at least
\* radiusMultiplier times the glide distance and at least radiusMultiplier
\* times the horizontal distance flown.
C2_RadiusFormula ==
    calc # Null =>
        /\ calc[1].searchRadius =
               Mul(Add(MathMax(calc[1].glideDistance,
                               Mul(form.groundSpeed, calc[1].timeToImpactHours)),
                       Mul(Mul(Frac(2, 10), form.windSpeed), calc[1].timeToImpactHours)),
                   form.searchRadiusMultiplier)
        /\ calc[1].timeToImpactHours = Div(calc[1].timeToImpactMinutes, Num(60))
        /\ calc[1].glideDistance =
               Div(Mul(form.altitude, aircraftTypes[form.aircraftType].glide_ratio),
                   Num(6076))
        /\ (ValidInputs(form) /\ Le(Num(0), form.windSpeed)) =>
               /\ Le(Mul(form.searchRadiusMultiplier, calc[1].glideDistance),
                     calc[1].searchRadius)
               /\ Le(Mul(form.searchRadiusMultiplier, calc[1].horizontalDistance),
                     calc[1].searchRadius)

\* the estimator has returned a radius whose base is the distance flown, not
\* the glide distance, and whose wind margin is positive
C2_Witness ==
    /\ calc # Null
    /\ Lt(calc[1].glideDistance, calc[1].horizontalDistance)
    /\ Gt(calc[1].windUncertainty, Num(0))
    /\ form.searchRadiusMultiplier = Num(2)

\* C3: with the flight state, the wind and the aircraft fixed, doubling the
\* radius multiplier doubles the radius and leaves the search center and the
\* glide distance as they are.
C3_RadiusLinearInMultiplier ==
    calc # Null =>
        /\ Estimate([form EXCEPT !.searchRadiusMultiplier = Mul(Num(2), @)]).searchRadius
               = Mul(Num(2), calc[1].searchRadius)
        /\ Estimate([form EXCEPT !.searchRadiusMultiplier = Mul(Num(2), @)]).searchCenter
               = calc[1].searchCenter
        /\ Estimate([form EXCEPT !.searchRadiusMultiplier = Mul(Num(2), @)]).glideDistance
               = calc[1].glideDistance

\* the estimator has returned a positive radius with a positive wind margin
\* for multiplier 1
C3_Witness ==
    /\ calc # Null
    /\ form.searchRadiusMultiplier = Num(1)
    /\ Gt(calc[1].searchRadius, Num(0))
    /\ Gt(calc[1].windUncertainty, Num(0))

\* C4: for inputs the contract does not admit (altitude < 0, groundSpeed < 0,
\* radiusMultiplier < 1, a non-positive aircraft field) the estimator
\* returns no search area.
C4_InvalidInputRejected == ~ValidInputs(form) => calc = Null

\* the estimator has returned a search area for a negative altitude
C4_Witness ==
    /\ calc # Null
    /\ Lt(form.altitude, Num(0))
    /\ Lt(calc[1].searchRadius, Num(0))

(***************************************************************************)
(* Properties of the sampler and the exporter (under Spec) and of          *)
(* vonMises (under SpecVonMises)                                           *)
(***************************************************************************)
\* C5: when the radius computed for admitted inputs is <= 0, the sampler is
\* not run: no probability field is produced for those inputs.
C5_NoFieldForDegenerateRadius ==
    (/\ calc # Null
     /\ ValidInputs(form)
     /\ Le(calc[1].searchRadius, Num(0)))
    => sampled = Null

\* the sampler has returned a field for altitude 0, whose radius is 0
C5_Witness ==
    /\ form.altitude = Num(0)
    /\ calc # Null
    /\ calc[1].searchRadius = Num(0)
    /\ sampled # Null
    /\ Len(sampled[1]) = form.numPoints

\* C6: every call of vonMises that enters the rejection loop leaves it: it
\* returns a value or fails with a timeout, whatever the random source
\* returns.
C6_LoopEnds == (vm.pc = "loop") ~> (vm.pc \in {"returned", "timeout"})

\* the loop has rejected an attempt and is about to make another
C6_Witness ==
    /\ vm.pc = "loop"
    /\ vm.kappa = Num(Kappa)
    /\ ~IsNaN(vm.u2)
    /\ ~VonMisesTest(vm.c, vm.u2)

\* C7: for admitted inputs the field the sampler returns has exactly
\* numPoints points, one of them has probability 1 and none has more.
C7_FieldSizeAndMaximum ==
    (ValidInputs(form) /\ sampled # Null) =>
        /\ Len(sampled[1]) = form.numPoints
        /\ \E i \in 1..Len(sampled[1]) : sampled[1][i][2] = Num(1)
        /\ \A i \in 1..Len(sampled[1]) : Le(sampled[1][i][2], Num(1))

\* the sampler has returned two points for radius 0, neither of probability 1
C7_Witness ==
    /\ ValidInputs(form)
    /\ sampled # Null
    /\ calc[1].searchRadius = Num(0)
    /\ Len(sampled[1]) = 2
    /\ \A i \in 1..2 : sampled[1][i][2] # Num(1)

\* C8: for admitted inputs, radius 0 included, every point of a returned
\* field has a probability that is a number in [0, 1].
C8_ProbabilityInUnitInterval ==
    (ValidInputs(form) /\ sampled # Null) =>
        \A i \in 1..Len(sampled[1]) :
            /\ ~IsNaN(sampled[1][i][2])
            /\ Le(Num(0), sampled[1][i][2])
            /\ Le(sampled[1][i][2], Num(1))

\* the sampler has returned a NaN probability for radius 0
C8_Witness ==
    /\ ValidInputs(form)
    /\ sampled # Null
    /\ calc[1].searchRadius = Num(0)
    /\ \E i \in 1..Len(sampled[1]) : IsNaN(sampled[1][i][2])

\* C9: two calls of the sampler with equal arguments (a search area of
\* positive radius the estimator returns for admitted inputs) return equal
\* fields: the arguments decide the draws.
C9_EqualArgumentsEqualFields ==
    [][(/\ ValidInputs(form)
        /\ calc # Null
        /\ sampled # Null
        /\ sampled' # Null
        /\ Gt(calc[1].searchRadius, Num(0))
        /\ calc' = calc
        /\ form' = form) => sampled' = sampled]_vars

\* C10: the CSV export has the header Latitude,Longitude,Probability,Type,
\* then one center row, then 36 boundary rows at the bearings 0, 10, ..., 350
\* from the center at the radius, then one row for each field point of
\* probability > 0.2 in field order: 1 + 36 + |{points : p > 0.2}| rows.
C10_CsvRows ==
    (exportOut # Null /\ exportOut[1].format = "csv") =>
        LET rows == exportOut[1].rows
            field == sampled[1]
            kept == {i \in 1..Len(field) : Gt(field[i][2], Frac(2, 10))}
            Rank(i) == Cardinality({j \in kept : j <= i})
        IN  /\ exportOut[1].header = "Latitude,Longitude,Probability,Type"
            /\ Len(rows) = 1 + 36 + Cardinality(kept)
            /\ rows[1] = [pos |-> calc[1].searchCenter, probability |-> Num(1),
                          type |-> "center"]
            /\ \A k \in 0..35 :
                   rows[2 + k] =
                       [pos |-> getDestinationPoint(calc[1].searchCenter, Num(10 * k),
                                                    calc[1].searchRadius),
                        probability |-> Num(0), type |-> "boundary"]
            /\ \A i \in kept :
                   rows[37 + Rank(i)] =
                       [pos |-> field[i][1], probability |-> field[i][2],
                        type |-> "probability"]

\* a field of two points, one of probability 1 and one of probability in
\* (0.2, 0.5], has been exported as CSV: 39 rows
C10_Witness ==
    /\ exportOut # Null
    /\ exportOut[1].format = "csv"
    /\ Len(sampled[1]) = 2
    /\ \E i \in 1..2 : /\ Gt(sampled[1][i][2], Frac(2, 10))
                       /\ Le(sampled[1][i][2], Frac(5, 10))
    /\ Len(exportOut[1].rows) = 39

(***************************************************************************)
(* Properties of the exporter called on its own (under SpecCalls)          *)
(***************************************************************************)

\* the call that was made last is a call of exportSearchCoordinates for
\* GeoJSON that returned
GeoJsonReturned ==
    /\ form.op = "exportSearchCoordinates"
    /\ form.exportFormat = "geojson"
    /\ exportOut # Null
    /\ ~exportOut[1].thrown

\* the indices of the field points whose probability exceeds one half
AboveHalf(field) == {k \in DOMAIN field : Gt(field[k][2], Frac(1, 2))}

\* C11: the GeoJSON export is a feature collection of exactly one center
\* Point feature, one boundary Polygon feature and one Point feature for
\* each field point whose probability is strictly greater than 0.5 (a
\* probability of exactly 0.5 is left out), so the number of features is
\* 1 + 1 + the number of field points with probability > 0.5.
C11_GeoJsonFeatures ==
    GeoJsonReturned =>
        LET features == exportOut[1].value.features
            field == form.args.probabilityPoints
        IN  /\ Len(features) = 1 + 1 + Cardinality(AboveHalf(field))
            /\ features[1].geometry = "Point" /\ features[1].type = "center"
            /\ features[2].geometry = "Polygon" /\ features[2].type = "boundary"
            /\ \A k \in 3..Len(features) :
                  /\ features[k].geometry = "Point"
                  /\ features[k].type = "probability"
                  /\ Gt(features[k].probability, Frac(1, 2))
            /\ \A k \in DOMAIN field :
                  Gt(field[k][2], Frac(1, 2)) =>
                      \E j \in 3..Len(features) : features[j].probability = field[k][2]

\* a GeoJSON export of a field of two points, one of probability exactly 0.5
\* and one above it
C11_Witness ==
    /\ GeoJsonReturned
    /\ Len(form.args.probabilityPoints) = 2
    /\ form.args.probabilityPoints[1][2] = Frac(1, 2)
    /\ form.args.probabilityPoints[2][2] = Num(1)
    /\ Len(exportOut[1].value.features) = 3

\* C12: the boundary ring of the GeoJSON export holds exactly 37 coordinate
\* pairs in [lon, lat] order; pair i (i = 0..35) is the point at bearing
\* 10*i degrees and distance searchRadius from the center, and the last pair
\* (index 36) equals pair 0, which closes the ring.
C12_BoundaryRing ==
    GeoJsonReturned =>
        LET ring == exportOut[1].value.features[2].coordinates
            center == form.args.searchCenter
            radius == form.args.searchRadius
        IN  /\ Len(ring) = 37
            /\ \A i \in 0..35 :
                  /\ ring[i + 1][1] = LonOf(getDestinationPoint(center, Num(10 * i), radius))
                  /\ ring[i + 1][2] = LatOf(getDestinationPoint(center, Num(10 * i), radius))
            /\ ring[37] = ring[1]

\* a GeoJSON export for a positive radius: the ring leaves the center
C12_Witness ==
    /\ GeoJsonReturned
    /\ form.args.searchRadius = Num(10)
    /\ exportOut[1].value.features[2].coordinates[10]
          # exportOut[1].value.features[2].coordinates[1]
    /\ exportOut[1].value.features[2].coordinates[1][1]
          = LonOf(<<Frac(377749, 10000), Frac(-1224194, 10000), <<<<Num(0), Num(10)>>>>>>)

\* C13: every public operation (estimation, sampling, export) returns a
\* result-or-error value for every input, a missing aircraft profile and a
\* missing radius included: no call throws.
C13_NoCallThrows ==
    /\ (form.op = "calculateSearchArea" /\ calc # Null) => ~calc[1].thrown
    /\ (form.op = "exportSearchCoordinates" /\ exportOut # Null) => ~exportOut[1].thrown

\* the estimator has thrown on a missing aircraft profile
C13_Witness ==
    /\ form.op = "calculateSearchArea"
    /\ form.args.aircraftType \notin DOMAIN aircraftTypes
    /\ calc # Null
    /\ calc[1].thrown

(***************************************************************************)
(* Properties of the page (under SpecPage)                                 *)
(***************************************************************************)

\* the current-result slot of the page p
Slot(p) == <<p.searchCenter, p.searchRadius, p.probabilityPoints>>

SlotUnset(p) == Slot(p) = <<Null, Null, Null>>

SlotOfOneRequest(p) ==
    /\ p.searchCenter # Null /\ p.searchRadius # Null /\ p.probabilityPoints # Null
    /\ p.centerOf # 0
    /\ p.radiusOf = p.centerOf
    /\ p.pointsOf = p.centerOf

\* C15: when request B is submitted before the callback of request A has
\* run, then once both callbacks have run the slot and the map layers hold
\* the result of B (the last write wins), computed from the inputs that were
\* in the fields when B was submitted.
C15_LastRequestWins ==
    (/\ page.clicks = 2
     /\ page.pendingAtClick = {1}
     /\ page.ran = {1, 2}
     /\ ~hung)
    => /\ SlotOfOneRequest(page)
       /\ page.centerOf = 2
       /\ page.layersOf = 2
       /\ page.searchRadius = Some(Estimate(page.submitted[2]).searchRadius)
       /\ page.searchCenter = Some(Estimate(page.submitted[2]).searchCenter)

\* B was submitted while A was pending, with other inputs than A, and both
\* callbacks have run
C15_Witness ==
    /\ page.clicks = 2
    /\ page.pendingAtClick = {1}
    /\ page.ran = {1, 2}
    /\ page.submitted[1] # page.submitted[2]

(***************************************************************************)
(* Properties of the estimator called on its own (under SpecCalls)         *)
(***************************************************************************)

\* the step is a call of calculateSearchArea
EstimatorCallStep == form'.op = "calculateSearchArea" /\ calc' # Null

\* C16: the estimator has no side effect and keeps no state: a call, after
\* any calls before it, leaves every global of the page as it was, leaves the
\* aircraft profile it was given as aircraft-data.js configured it, and gives
\* the result a call on the same arguments gives on the page as loaded.
C16_EstimatorIsPure ==
    [][EstimatorCallStep =>
          /\ page' = page
          /\ form'.aircraftSpecs = ProfileOf(form'.args)
          /\ calc' = Some(EstimatorOutcome(form'.args))]_vars

\* the estimator has returned for the arguments of the worked example and
\* the globals are as the page loaded them
C16_Witness ==
    /\ form.op = "calculateSearchArea"
    /\ form.args = ExampleForm
    /\ calc # Null
    /\ ~calc[1].thrown
    /\ form.aircraftSpecs = aircraftTypes["boeing737"]
    /\ page = PageInit

(***************************************************************************)
(* Properties of the destination-point functions (under SpecGeo)           *)
(***************************************************************************)

\* C17: getDestinationPoint and calculateDestinationPoint return the same
\* longitude for the same origin, bearing and distance, also when the path
\* crosses the meridian of +/-180 degrees.
C17_SameLongitude ==
    (form.op = "getDestinationPoint" /\ calc # Null) =>
        calc[1].value[2]
          = calculateDestinationPoint(<<form.args.lat, form.args.lon>>, form.args.bearing,
                                      form.args.angularDistance)[2]

\* getDestinationPoint has returned a longitude beyond 180 degrees for a
\* path that crosses the meridian
C17_Witness ==
    /\ form.op = "getDestinationPoint"
    /\ form.args.lon = Num(135) /\ form.args.bearing = Num(90)
    /\ form.args.angularDistance = Frac(1, 2)
    /\ calc # Null
    /\ calc[1].value = <<Num(0), Num(225)>>

(***************************************************************************)
(* Further properties of the estimator (C18 under SpecEstimator, C19 under *)
(* SpecCalls)                                                              *)
(***************************************************************************)

\* C18: for altitude >= 0 and glide ratio > 0 the glide distance is
\* (altitude / 6076) * glideRatio and is linear in the altitude: the glide
\* distance for twice the altitude is twice the glide distance.
C18_GlideDistanceLinear ==
    (/\ calc # Null
     /\ Le(Num(0), form.altitude)
     /\ Gt(aircraftTypes[form.aircraftType].glide_ratio, Num(0)))
    => /\ calc[1].glideDistance
            = Mul(Div(form.altitude, Num(6076)), aircraftTypes[form.aircraftType].glide_ratio)
       /\ Estimate([form EXCEPT !.altitude = Mul(Num(2), @)]).glideDistance
            = Mul(Num(2), calc[1].glideDistance)

\* the estimator has returned the glide distance of a Boeing 737 at 6076 ft:
\* 17 nautical miles, and 34 for twice the altitude
C18_Witness ==
    /\ calc # Null
    /\ form.altitude = Num(6076)
    /\ form.aircraftType = "boeing737"
    /\ calc[1].glideDistance = Num(17)
    /\ Estimate([form EXCEPT !.altitude = Num(12152)]).glideDistance = Num(34)

\* a non-negative number at two decimals, halves rounded up (toFixed(2))
Round2(a) == Frac((200 * a[1] + a[2]) \div (2 * a[2]), 100)

\* the estimator has returned for the arguments of the worked example
ExampleReturned ==
    /\ form.op = "calculateSearchArea"
    /\ form.args = ExampleForm
    /\ calc # Null
    /\ ~calc[1].thrown

\* the values of the worked example, the glide distance and the radius at
\* two decimals being glide and radius
ExampleYields(r, glide, radius) ==
    /\ r.timeToImpactMinutes = Frac(75, 10)
    /\ r.horizontalDistance = Frac(5625, 100)
    /\ r.windDistance = Frac(1875, 1000)
    /\ r.windUncertainty = Frac(375, 1000)
    /\ r.baseRadius = r.glideDistance
    /\ Round2(r.glideDistance) = glide
    /\ Round2(r.searchRadius) = radius

\* C19 as stated: for the worked example (altitude 30000 ft, ground speed 450
\* kt, vertical speed 0, wind 15 kt, glide ratio 17, emergency descent rate
\* 4000 ft/min, multiplier 2.0) the estimator yields time to impact 7.5 min,
\* horizontal distance 56.25 nm, wind distance 1.875 nm, wind uncertainty
\* 0.375 nm, a base radius equal to the glide distance, glide distance
\* 83.95 nm and radius 168.65 nm at two decimals.
C19_ExampleAsStated ==
    ExampleReturned => ExampleYields(calc[1].value, Frac(8395, 100), Frac(16865, 100))

\* C19 as amended: the same, with glide distance 83.94 nm
\* (30000 / 6076 * 17 = 83.9368...) and radius 168.62 nm
\* ((83.9368... + 0.375) * 2 = 168.6237...) at two decimals.
C19_ExampleValues ==
    ExampleReturned => ExampleYields(calc[1].value, Frac(8394, 100), Frac(16862, 100))

\* the estimator has returned for the worked example, with the exact glide
\* distance 127500/1519 nm
C19_Witness ==
    /\ ExampleReturned
    /\ calc[1].value.glideDistance = Frac(127500, 1519)
    /\ calc[1].value.searchRadius = Frac(1024557, 6076)

\* C20 as stated: windWeight = min(windSpeed / 50, 0.8) and headingWeight =
\* 1 - windWeight: for every wind speed >= 0 the weights sum to 1,
\* windWeight is in [0, 0.8] and is 0.8 exactly when windSpeed >= 40, and
\* headingWeight is in [0.2, 1].
C20_DirectionWeightsAsStated ==
    (/\ form.op = "calculateProbabilityDistribution"
     /\ sampled # Null
     /\ Le(Num(0), form.args.windSpeed))
    => /\ Add(sampled[1].windWeight, sampled[1].headingWeight) = Num(1)
       /\ Le(Num(0), sampled[1].windWeight)
       /\ Le(sampled[1].windWeight, Double(Frac(8, 10)))
       /\ (sampled[1].windWeight = Double(Frac(8, 10))) <=> Le(Num(40), form.args.windSpeed)
       /\ Le(Double(Frac(2, 10)), sampled[1].headingWeight)
       /\ Le(sampled[1].headingWeight, Num(1))

\* C20: for every wind speed >= 0 the weights sum to 1, windWeight is
\* windSpeed / 50 below 40 and 0.8 from 40 on, and headingWeight is in
\* [1 - 0.8, 1], where 1 - 0.8 is the double below 0.2 (0.19999999999999996):
\* from 40 on headingWeight is that value and less than 0.2.
C20_DirectionWeights ==
    (/\ form.op = "calculateProbabilityDistribution"
     /\ sampled # Null
     /\ Le(Num(0), form.args.windSpeed))
    => /\ Add(sampled[1].windWeight, sampled[1].headingWeight) = Num(1)
       /\ Le(Num(0), sampled[1].windWeight)
       /\ Le(sampled[1].windWeight, Double(Frac(8, 10)))
       /\ (sampled[1].windWeight = Double(Frac(8, 10))) <=> Le(Num(40), form.args.windSpeed)
       /\ Le(Sub(Num(1), Double(Frac(8, 10))), sampled[1].headingWeight)
       /\ Le(sampled[1].headingWeight, Num(1))
       /\ Le(Num(40), form.args.windSpeed)
             => Lt(sampled[1].headingWeight, Double(Frac(2, 10)))
       /\ Lt(form.args.windSpeed, Num(40))
             => /\ sampled[1].windWeight = Div(form.args.windSpeed, Num(50))
                /\ Lt(Double(Frac(2, 10)), sampled[1].headingWeight)

\* the weights have been computed for a wind of 200 kt, past the cap:
\* windWeight is 0.8 and headingWeight is below 0.2
C20_Witness ==
    /\ form.op = "calculateProbabilityDistribution"
    /\ form.args.windSpeed = Num(200)
    /\ sampled # Null
    /\ sampled[1].windWeight = Double(Frac(8, 10))
    /\ Lt(sampled[1].headingWeight, Double(Frac(2, 10)))

(***************************************************************************)
(* Further properties of the sampler and the exporter (under Spec)         *)
(***************************************************************************)

\* C21: for every radius >= 0 and every value the random source returns,
\* the radial distance of every sample of a returned field is a number with
\* 0 <= distance <= radius.
C21_RadialDistanceInRange ==
    (/\ calc # Null
     /\ sampled # Null
     /\ Le(Num(0), calc[1].searchRadius))
    => \A i \in 1..Len(sampled[1]) :
          /\ Le(Num(0), sampled[1][i][1][2])
          /\ Le(sampled[1][i][1][2], calc[1].searchRadius)

\* the sampler has returned a sample whose radial distance is NaN, for
\* radius 0
C21_Witness ==
    /\ calc # Null
    /\ sampled # Null
    /\ calc[1].searchRadius = Num(0)
    /\ \E i \in 1..Len(sampled[1]) : IsNaN(sampled[1][i][1][2])

(***************************************************************************)
(* Further properties of the destination-point functions (under SpecGeo)   *)
(***************************************************************************)

\* a destination-point function has returned for distance 0
ZeroDistanceReturned ==
    /\ form.op \in {"getDestinationPoint", "calculateDestinationPoint"}
    /\ calc # Null
    /\ form.args.angularDistance = Num(0)

\* C22 as stated: for every position p and every bearing, both
\* destination-point functions return p for distance 0.
C22_ZeroDistanceAsStated ==
    ZeroDistanceReturned => calc[1].value = <<form.args.lat, form.args.lon>>

\* C22 as amended: for distance 0 and every bearing, getDestinationPoint
\* returns p for every position p, and calculateDestinationPoint returns p
\* for every position of longitude in [-180, 180) and the same latitude with
\* longitude -180 for longitude 180.
C22_ZeroDistance ==
    ZeroDistanceReturned =>
        IF form.op = "calculateDestinationPoint" /\ form.args.lon = Num(180)
        THEN calc[1].value = <<form.args.lat, Num(-180)>>
        ELSE calc[1].value = <<form.args.lat, form.args.lon>>

\* calculateDestinationPoint has returned the start for distance 0 from
\* latitude 45 on a course due south
C22_Witness ==
    /\ ZeroDistanceReturned
    /\ form.op = "calculateDestinationPoint"
    /\ form.args.lat = Num(45) /\ form.args.lon = Num(135)
    /\ form.args.bearing = Num(180)
    /\ calc[1].value = <<Num(45), Num(135)>>

\* C26: for every start longitude in [-180, 180], every bearing and every
\* distance, the longitude calculateDestinationPoint returns lies in
\* [-180, 180).
C26_LongitudeNormalized ==
    (/\ form.op = "calculateDestinationPoint"
     /\ calc # Null
     /\ Le(Num(-180), form.args.lon) /\ Le(form.args.lon, Num(180)))
    => /\ Le(Num(-180), calc[1].value[2])
       /\ Lt(calc[1].value[2], Num(180))

\* calculateDestinationPoint has returned -135 for the path from longitude
\* 135 a quarter of the way round the equator to the east
C26_Witness ==
    /\ form.op = "calculateDestinationPoint"
    /\ form.args.lon = Num(135) /\ form.args.bearing = Num(90)
    /\ form.args.angularDistance = Frac(1, 2)
    /\ calc # Null
    /\ calc[1].value = <<Num(0), Num(-135)>>

(***************************************************************************)
(* Further properties of the page (C23 under SpecPage, C24 under           *)
(* SpecExportData)                                                         *)
(***************************************************************************)

\* C23: on the page as loaded, once the callback of a click on the calculate
\* button with valid inputs has run, the estimator was invoked on the
\* collected inputs, its result and the sampled field are stored as the
\* current result, and the export button is enabled.
C23_ClickStoresResult ==
    (page.ran # {} /\ ~hung) =>
        /\ page.lastRun = "completed"
        /\ SlotOfOneRequest(page)
        /\ \E req \in page.ran :
              page.searchRadius = Some(Estimate(page.submitted[req]).searchRadius)
        /\ ~page.exportDisabled

\* the callback of the first click has run on valid inputs: it failed, the
\* alert is up, nothing is stored, the export button is disabled and a timer
\* is pending again
C23_Witness ==
    /\ page.clicks = 1
    /\ ValidInputs(page.submitted[1])
    /\ page.ran = {1}
    /\ page.lastRun = "failed"
    /\ page.alert = CalculateAlert
    /\ SlotUnset(page)
    /\ page.exportDisabled
    /\ Len(page.timers) = 1

\* C24: exportData hands out an export only when searchCenter, searchRadius
\* and probabilityPoints are all set by a calculation that completed, and
\* otherwise alerts and hands out nothing; the export button is enabled only
\* by a completed calculation, so whenever it is enabled the slot is fully
\* populated.
C24_ExportNeedsResult ==
    /\ ~page.exportDisabled => (SlotOfOneRequest(page) /\ page.pointsOf \in page.ran)
    /\ exportOut # Null => (SlotOfOneRequest(page) /\ page.pointsOf \in page.ran)
    /\ (page.lastEvent = "exportData" /\ ~SlotOfOneRequest(page))
          => (page.alert = ExportAlert /\ exportOut = Null)

\* exportData was called after a request whose callback failed: it alerted
\* and handed out nothing
C24_Witness ==
    /\ page.lastEvent = "exportData"
    /\ page.ran = {1}
    /\ page.exportDisabled
    /\ page.alert = ExportAlert
    /\ exportOut = Null

(***************************************************************************)
(* The two exports of one field (under Spec)                               *)
(***************************************************************************)

\* the coordinate pair and probability of each probability entry of an export
ExportedPoints(out) ==
    IF out.format = "csv"
    THEN {<<LonLat(out.rows[k].pos), out.rows[k].probability>> :
             k \in {j \in 1..Len(out.rows) : out.rows[j].type = "probability"}}
    ELSE {<<out.features[k].coordinates[1], out.features[k].probability>> :
             k \in {j \in 1..Len(out.features) : out.features[j].type = "probability"}}

\* an export of a field of N >= 1 points sampled over a radius > 0 takes
\* place
ExportOfPositiveRadius ==
    /\ exportOut' # Null
    /\ calc' # Null
    /\ sampled' # Null
    /\ Gt(calc'[1].searchRadius, Num(0))
    /\ Len(sampled'[1]) >= 1

\* C25: for every field of N >= 1 points sampled over a radius > 0, each
\* export has at least one probability entry (the CSV at least 38 data rows,
\* the GeoJSON at least 3 features), and every point of the GeoJSON export
\* of a field is a point of the CSV export of the same field.
C25_BothExportsHavePoints ==
    [][ExportOfPositiveRadius =>
         /\ ExportedPoints(exportOut'[1]) # {}
         /\ exportOut'[1].format = "csv" => Len(exportOut'[1].rows) >= 38
         /\ exportOut'[1].format = "geojson" => Len(exportOut'[1].features) >= 3
         /\ (/\ exportOut # Null
             /\ sampled = sampled'
             /\ calc = calc'
             /\ exportOut[1].format = "csv"
             /\ exportOut'[1].format = "geojson")
            => ExportedPoints(exportOut'[1]) \subseteq ExportedPoints(exportOut[1])
         /\ (/\ exportOut # Null
             /\ sampled = sampled'
             /\ calc = calc'
             /\ exportOut[1].format = "geojson"
             /\ exportOut'[1].format = "csv")
            => ExportedPoints(exportOut[1]) \subseteq ExportedPoints(exportOut'[1])]_vars

\* a field of two points over a positive radius, one of probability 1 and
\* one of probability in (0.2, 0.5], has been exported as GeoJSON: three
\* features, the point of probability 1 the only probability feature
C25_Witness ==
    /\ exportOut # Null
    /\ exportOut[1].format = "geojson"
    /\ Gt(calc[1].searchRadius, Num(0))
    /\ Len(sampled[1]) = 2
    /\ \E i \in 1..2 : /\ Gt(sampled[1][i][2], Frac(2, 10))
                       /\ Le(sampled[1][i][2], Frac(5, 10))
    /\ Len(exportOut[1].features) = 3
    /\ Cardinality(ExportedPoints(exportOut[1])) = 1

(***************************************************************************)
(* Properties of the aircraft tracker (under SpecTracker)                  *)
(***************************************************************************)

\* C27: after any sequence of toggles isLiveTracking is true exactly when
\* pollingInterval is non-null, and at most one interval timer is active:
\* the active timers are the one pollingInterval holds, every timer started
\* earlier having been cleared by the toggle that followed.
C27_OneIntervalTimer ==
    /\ tracker.isLiveTracking <=> tracker.pollingInterval # Null
    /\ Cardinality(tracker.intervals) <= 1
    /\ tracker.intervals = IF tracker.pollingInterval = Null THEN {}
                           ELSE {tracker.pollingInterval[1]}

\* tracking has been started, stopped and started again: the second
\* interval timer is the only one active
C27_Witness ==
    /\ tracker.isLiveTracking
    /\ tracker.timerIds = 2
    /\ tracker.pollingInterval = Some(2)
    /\ tracker.intervals = {2}

\* the user has started live tracking and stopped it, and has not started
\* it again
TrackingStopped == ~tracker.isLiveTracking /\ tracker.timerIds > 0

\* C30: once live tracking is stopped the connection status indicator is
\* red until tracking is started again, whatever responses arrive and
\* timers fire in between.
C30_StoppedStaysRed == TrackingStopped => tracker.connectionStatus = StatusRed

\* after the stop the response of a fetch issued while tracking was on has
\* been processed: the indicator is green
C30_Witness ==
    /\ TrackingStopped
    /\ tracker.lastEvent = "response"
    /\ tracker.connectionStatus = StatusGreen

\* the marker the selection belongs to
SelectedMarker == tracker.aircraftMarkers[tracker.selectedAircraft[1].icao24]

\* C28: the selection follows the updates of the selected aircraft: a glide
\* prediction is computed from the data received last for the selected
\* aircraft, which is the position and altitude the flight info panel
\* shows, and a click on a marker selects the data received last for it.
C28_SelectionFollowsUpdates ==
    /\ (tracker.lastEvent = "calculateGlidePrediction" /\ tracker.selectedAircraft # Null)
       => /\ SelectedMarker # Null
          /\ tracker.glidePathLayer = Some(predictLandingZone(SelectedMarker[1].data))
          /\ tracker.flightPosition =
                 Some(formatCoordinates(tracker.glidePathLayer[1].aircraftPosition))
          /\ tracker.flightAltitude =
                 Some(formatAltitude(tracker.glidePathLayer[1].altitude))
    /\ tracker.lastEvent = "click"
       => /\ SelectedMarker # Null
          /\ tracker.selectedAircraft[1] = SelectedMarker[1].data

\* a glide prediction has been computed for the selected aircraft from a
\* position that is neither the one received last nor the one the panel
\* shows
C28_Witness ==
    /\ tracker.lastEvent = "calculateGlidePrediction"
    /\ tracker.selectedAircraft # Null
    /\ SelectedMarker # Null
    /\ tracker.glidePathLayer[1].aircraftPosition # SelectedMarker[1].latlng
    /\ tracker.flightPosition = Some(formatCoordinates(SelectedMarker[1].latlng))
    /\ tracker.flightPosition # Some(formatCoordinates(tracker.glidePathLayer[1].aircraftPosition))

\* the addresses of the state vectors that carry an address and a position
Carried(states) ==
    {states[k].icao24[1] :
        k \in {j \in 1..Len(states) : /\ states[j].icao24 # Null
                                       /\ states[j].longitude # Null
                                       /\ states[j].latitude # Null}}

\* processAircraftData has handled an update whose states are an array
UpdateHandled == tracker'.lastEvent = "response" /\ tracker'.lastStates # Null

\* C29: after processAircraftData has handled a well-formed update the keys
\* of aircraftMarkers are the addresses of its states that carry an address
\* and a position, each with one marker on the map and no other marker on
\* the map; and if the selected aircraft was not among them, nothing is
\* selected and the glide-path and landing-zone layers are cleared.
C29_MarkersMatchUpdate ==
    [][UpdateHandled =>
         /\ {i \in Icaos : tracker'.aircraftMarkers[i] # Null} = Carried(tracker'.lastStates[1])
         /\ \A i \in Icaos :
               tracker'.mapMarkers[i] = IF i \in Carried(tracker'.lastStates[1]) THEN 1 ELSE 0
         /\ (/\ tracker.selectedAircraft # Null
             /\ tracker.selectedAircraft[1].icao24 \notin Carried(tracker'.lastStates[1]))
            => /\ tracker'.selectedAircraft = Null
               /\ tracker'.glidePathLayer = Null
               /\ tracker'.landingZoneLayer = Null]_vars

\* an update whose only state is an aircraft at longitude 0 has been
\* handled: the aircraft has no marker
C29_Witness ==
    /\ tracker.lastEvent = "response"
    /\ tracker.lastStates = Some(<<StateOnMeridian>>)
    /\ tracker.aircraftMarkers["400f01"] = Null
    /\ tracker.mapMarkers["400f01"] = 0

====
